---- MODULE Spec2Model ----
(***************************************************************************)
(* Model of the mcp-echo-tool repository.                                  *)
(*                                                                         *)
(* The repository holds two builds of the server:                          *)
(*   - the "legacy" server (src/unnamed/part_001): one tool, echo, served  *)
(*     by hand-written ListTools / CallTool request handlers;              *)
(*   - the "enhanced" server (src/src/index.ts): tools registered with     *)
(*     server.registerTool(name, {inputSchema}, handler).                  *)
(* A string is a sequence of UTF-16 code units, each unit a TLA+ string.  *)
(***************************************************************************)
EXTENDS Integers, Sequences, FiniteSets, TLC

VARIABLES
  build,      \* which server runs: "legacy" or "enhanced"
  sdkThrows,  \* whether the installed McpServer throws its own failures
  registry,   \* the names of the registered tools
  now,        \* the wall clock
  prev,       \* how the call before ended: "none", "ok" or "failed"
  req,        \* the request being answered, NoRequest when idle
  out,        \* its outcome
  listed,     \* the tools the last tools/list request returned, <<>> before any
  inflight    \* the invocations being served together, by slot

vars == <<build, sdkThrows, registry, now, prev, req, out, listed, inflight>>

\* ------------------------------------------------------------------ bounds
MaxLen == 3
MaxJsonLen == 2
MaxClock == 1
\* Math.random() takes the values k / RandomSteps, k in 0..RandomSteps-1.
RandomSteps == 4
\* Draws of the random source a call may see before they repeat.
MaxDraws == 2
\* Invocations that may be in flight together.
MaxInFlight == 2

\* ------------------------------------------------------- JavaScript strings

\* \s of a JavaScript regular expression; also what String.prototype.trim strips.
IsSpace(c) == c \in {" ", "\t", "\n", "\r"}

\* The letters that occur in the inputs, lower case and upper case.
LowerLetters == <<"a", "b", "d", "e", "h", "l", "o", "r", "w">>
UpperLetters == <<"A", "B", "D", "E", "H", "L", "O", "R", "W">>
LetterIndex(c, letters) == CHOOSE i \in 1..Len(letters) : letters[i] = c
IsUpperAZ(c) == \E i \in 1..Len(UpperLetters) : UpperLetters[i] = c
IsLowerAZ(c) == \E i \in 1..Len(LowerLetters) : LowerLetters[i] = c
IsDigit(c) == c \in {"0", "1", "2", "3", "4", "5", "6", "7", "8", "9"}
\* \w of a JavaScript regular expression: [A-Za-z0-9_]
IsWord(c) == IsUpperAZ(c) \/ IsLowerAZ(c) \/ IsDigit(c) \/ c = "_"

\* String.prototype.toUpperCase / toLowerCase, one code unit at a time (a lone
\* surrogate, a digit, a space or punctuation is left as it is).
UpperChar(c) == IF IsLowerAZ(c) THEN UpperLetters[LetterIndex(c, LowerLetters)] ELSE c
LowerChar(c) == IF IsUpperAZ(c) THEN LowerLetters[LetterIndex(c, UpperLetters)] ELSE c
toUpperCase(s) == [i \in 1..Len(s) |-> UpperChar(s[i])]
toLowerCase(s) == [i \in 1..Len(s) |-> LowerChar(s[i])]

\* All strings over cs of length at most n.
StringsUpTo(cs, n) == UNION {[1..k -> cs] : k \in 0..n}

\* "Hello World", the message of the README example and the first test
HelloWorld == <<"H", "e", "l", "l", "o", " ", "W", "o", "r", "l", "d">>
\* "  Hello   World  ", the message of the whitespace test
HelloWorldSpaced ==
  <<" ", " ", "H", "e", "l", "l", "o", " ", " ", " ", "W", "o", "r", "l", "d", " ", " ">>

\* A reversal by code points: a surrogate pair stays in order.
reversed_ByCodePoint(message) ==
  LET r == [i \in 1..Len(message) |-> message[Len(message) + 1 - i]]
  IN [i \in 1..Len(r) |->
        IF r[i] = "<lo>" /\ i < Len(r) /\ r[i + 1] = "<hi>" THEN "<hi>"
        ELSE IF r[i] = "<hi>" /\ i > 1 /\ r[i - 1] = "<lo>" THEN "<lo>"
        ELSE r[i]]

\* String.prototype.split("").reverse().join(""): code units in reverse order
reversed(message) == [i \in 1..Len(message) |-> message[Len(message) + 1 - i]]

RECURSIVE TrimLeft(_)
TrimLeft(s) == IF s # <<>> /\ IsSpace(Head(s)) THEN TrimLeft(Tail(s)) ELSE s

\* String.prototype.trim
trim(s) == reversed(TrimLeft(reversed(TrimLeft(s))))

\* String.prototype.split(/\s+/): the pieces between maximal whitespace runs;
\* a leading or trailing run leaves an empty piece, "" gives [""].
RECURSIVE SplitRec(_, _, _, _)
SplitRec(s, i, cur, prevWs) ==
  IF i > Len(s) THEN <<cur>>
  ELSE IF IsSpace(s[i])
       THEN IF prevWs THEN SplitRec(s, i + 1, cur, TRUE)
            ELSE <<cur>> \o SplitRec(s, i + 1, <<>>, TRUE)
       ELSE SplitRec(s, i + 1, Append(cur, s[i]), FALSE)

splitWhitespace(s) == SplitRec(s, 1, <<>>, FALSE)

NonEmpty(w) == Len(w) > 0

\* The count without the filter of empty pieces.
wordCount_Unfiltered(message) == Len(splitWhitespace(trim(message)))

\* message.trim().split(/\s+/).filter(w => w.length > 0).length
wordCount(message) == Len(SelectSeq(splitWhitespace(trim(message)), NonEmpty))

\* message.length
charCount(message) == Len(message)

\* ------------------------------------------------------------ JSON values
\* A JavaScript value as it is built by a handler and serialised by
\* JSON.stringify: t is its type, s its string content, n its number, o the
\* ordered <<key, value>> properties of an object or the items of an array.
JStr(s) == [t |-> "string", s |-> s, n |-> 0, o |-> <<>>]
JNum(n) == [t |-> "number", s |-> <<>>, n |-> n, o |-> <<>>]
JBool(b) == [t |-> "boolean", s |-> <<>>, n |-> IF b THEN 1 ELSE 0, o |-> <<>>]
JNull == [t |-> "null", s |-> <<>>, n |-> 0, o |-> <<>>]
JUndefined == [t |-> "undefined", s |-> <<>>, n |-> 0, o |-> <<>>]
JObj(props) == [t |-> "object", s |-> <<>>, n |-> 0, o |-> props]
JArr(items) == [t |-> "array", s |-> <<>>, n |-> 0, o |-> items]
\* Values of library formatters and digests, kept symbolically: the function
\* applied (t), its parameters (s) and the instant or number it formats (n).
JLib(fn, params, n) == [t |-> fn, s |-> params, n |-> n, o |-> <<>>]

IsDefined(p) == p[2].t # "undefined"

\* JSON.stringify(value, null, 2) followed by the client's JSON.parse: what the
\* text denotes.  Properties whose value is undefined are not serialised.
RECURSIVE Stringify(_)
Stringify(v) ==
  IF v.t = "object"
  THEN LET kept == SelectSeq(v.o, IsDefined)
       IN JObj([i \in 1..Len(kept) |-> <<kept[i][1], Stringify(kept[i][2])>>])
  ELSE IF v.t = "array"
  THEN JArr([i \in 1..Len(v.o) |->
               IF v.o[i].t = "undefined" THEN JNull ELSE Stringify(v.o[i])])
  ELSE v

\* Property access on a parsed object: response[key], JUndefined when absent.
HasKey(obj, key) == obj.t = "object" /\ \E i \in 1..Len(obj.o) : obj.o[i][1] = key
Get(obj, key) ==
  IF HasKey(obj, key)
  THEN obj.o[CHOOSE i \in 1..Len(obj.o) : obj.o[i][1] = key][2]
  ELSE JUndefined

\* ------------------------------------------------------- request arguments
\* A raw argument as received: a JSON value, or absent from the payload.
Absent == [t |-> "absent", s |-> <<>>, n |-> 0]
Null == [t |-> "null", s |-> <<>>, n |-> 0]
Str(s) == [t |-> "string", s |-> s, n |-> 0]
Num(n) == [t |-> "number", s |-> <<>>, n |-> n]
Bool(b) == [t |-> "boolean", s |-> <<>>, n |-> IF b THEN 1 ELSE 0]
\* A number with a fractional part, h/2 for an odd h (1.5 is Half(3)).
Half(h) == [t |-> "number", s |-> <<"/", "2">>, n |-> h]
\* Twice the value of a raw number.
Twice(v) == IF v.s = <<>> THEN 2 * v.n ELSE v.n

\* JavaScript truthiness of a raw argument (the operand of `!`).
Truthy(v) ==
  CASE v.t = "absent" -> FALSE
    [] v.t = "null" -> FALSE
    [] v.t = "string" -> Len(v.s) > 0
    [] v.t = "number" -> v.n # 0
    [] v.t = "boolean" -> v.n = 1
    [] OTHER -> TRUE

\* ---------------------------------------------------------------- outcomes
\* What a call ends with: an envelope returned to the transport
\* ({content: [{type: "text", text}], isError?}) or an error thrown out of the
\* request handler.  text.lit is a literal text (template fragments),
\* text.json the value a JSON text denotes; message is the thrown Error's
\* message; ran names the handler body that executed ("" when none did).
NoJson == JUndefined
NoOutcome ==
  [kind |-> "none", isError |-> FALSE, lit |-> <<>>, json |-> NoJson,
   message |-> <<>>, ran |-> ""]
Success(tool, response) ==
  [kind |-> "returned", isError |-> FALSE, lit |-> <<>>,
   json |-> Stringify(response), message |-> <<>>, ran |-> tool]
Thrown(tool, msg) ==
  [kind |-> "thrown", isError |-> FALSE, lit |-> <<>>, json |-> NoJson,
   message |-> msg, ran |-> tool]

\* ------------------------------------------------------------------- dates
\* An instant is a count of milliseconds since the epoch, kept in decimal
\* digits without leading zeros (the counts exceed 32-bit integers).
DigitChars == <<"0", "1", "2", "3", "4", "5", "6", "7", "8", "9">>
DigitVal(c) == (CHOOSE i \in 1..10 : DigitChars[i] = c) - 1

RECURSIVE IntDigits(_)
IntDigits(n) ==
  IF n < 10 THEN <<DigitChars[n + 1]>>
  ELSE IntDigits(n \div 10) \o <<DigitChars[(n % 10) + 1]>>

RECURSIVE Canon(_)
Canon(ds) == IF Len(ds) > 1 /\ Head(ds) = "0" THEN Canon(Tail(ds)) ELSE ds

\* a < b for canonical digit strings
DigitsLess(a, b) ==
  \/ Len(a) < Len(b)
  \/ /\ Len(a) = Len(b)
     /\ \E i \in 1..Len(a) :
          /\ DigitVal(a[i]) < DigitVal(b[i])
          /\ \A j \in 1..(i - 1) : a[j] = b[j]

RECURSIVE AddDigits(_, _)
AddDigits(ds, carry) ==
  IF ds = <<>> THEN (IF carry = 0 THEN <<>> ELSE IntDigits(carry))
  ELSE LET d == DigitVal(ds[Len(ds)]) + carry
       IN AddDigits(SubSeq(ds, 1, Len(ds) - 1), d \div 10) \o <<DigitChars[(d % 10) + 1]>>

Div1000(ds) == IF Len(ds) <= 3 THEN <<"0">> ELSE SubSeq(ds, 1, Len(ds) - 3)

\* 10000000000, below which a number is read as seconds
SecondsLimit == <<"1", "0", "0", "0", "0", "0", "0", "0", "0", "0", "0">>
\* 8640000000000000, the largest time value of a Date
MaxTimeValue == <<"8", "6", "4", "0", "0", "0", "0", "0", "0", "0", "0", "0", "0", "0", "0", "0">>

\* A Date: its time value, or NaN (valid = FALSE).
InvalidDate == [valid |-> FALSE, ms |-> <<"0">>]
DateOf(ms) == IF DigitsLess(MaxTimeValue, ms) THEN InvalidDate ELSE [valid |-> TRUE, ms |-> ms]

\* "2024-01-01T00:00:00.000Z" and its time value 1704067200000
IsoSample == <<"2", "0", "2", "4", "-", "0", "1", "-", "0", "1", "T", "0", "0", ":", "0", "0", ":", "0", "0", ".", "0", "0", "0", "Z">>

\* Renderings of a time value by the library, kept symbolically: the
\* formatter and the instant.
toISOString(ms) == JLib("toISOString", ms, 0)
toUTCString(ms) == JLib("toUTCString", ms, 0)
toLocaleString(ms) == JLib("toLocaleString", ms, 0)
\* date.toISOString().split("T")[0] and .split("T")[1].replace("Z", "")
dateOnly(ms) == JLib("toISOString.date", ms, 0)
timeOnly(ms) == JLib("toISOString.time", ms, 0)
\* A number too large for JNum, by its digits.
JBig(ds) == [t |-> "number", s |-> ds, n |-> 0, o |-> <<>>]

\* createHash(algorithm).update(data).digest(encoding): a function of its three
\* arguments, kept symbolically.
digest(algorithm, data, encoding) == JLib("digest", <<algorithm, encoding>> \o data, 0)

\* Buffer.from(data).toString(encoding), kept symbolically.
bufferToString(data, encoding) == JLib("Buffer.toString", <<encoding>> \o data, 0)

\* Number.prototype.toFixed(2) of num / den, kept as the quotient's parts.
toFixed2(num, den) == JLib("toFixed(2)", <<>>, (num * 100) \div den)

\* ---------------------------------------------------------- legacy server
\* The argument named k of a payload, Absent when the payload has none.
Arg(args, k) == IF k \in DOMAIN args THEN args[k] ELSE Absent

\* The tool list the legacy ListTools handler returns.
LegacyTools == {"echo"}

\* The input schema the legacy ListTools handler declares for echo.
legacyInputSchema == <<[name |-> "message", kind |-> "string", required |-> TRUE]>>

\* The legacy handler with its two checks in the other order.
LegacyCallTool_MessageFirst(name, args, clock) ==
  LET message == Arg(args, "message") IN
  IF ~Truthy(message)
  THEN Thrown("", <<"Message parameter is required">>)
  ELSE IF name # "echo"
  THEN Thrown("", <<"Unknown tool: ", name>>)
  ELSE IF message.t # "string"
  THEN Thrown("echo", <<"message.split is not a function">>)
  ELSE Success("echo", JObj(<<
         <<"original", JStr(message.s)>>,
         <<"reversed", JStr(reversed(message.s))>>,
         <<"word_count", JNum(wordCount(message.s))>>,
         <<"char_count", JNum(charCount(message.s))>>,
         <<"timestamp", toISOString(IntDigits(clock))>> >>))

\* The legacy CallTool request handler, called at instant clock.
LegacyCallTool(name, args, clock) ==
  IF name # "echo"
  THEN Thrown("", <<"Unknown tool: ", name>>)
  ELSE LET message == Arg(args, "message") IN
       IF ~Truthy(message)
       THEN Thrown("", <<"Message parameter is required">>)
       ELSE IF message.t # "string"
       \* message.split("") on a value that is no string: a TypeError
       THEN Thrown("echo", <<"message.split is not a function">>)
       ELSE Success("echo", JObj(<<
              <<"original", JStr(message.s)>>,
              <<"reversed", JStr(reversed(message.s))>>,
              <<"word_count", JNum(wordCount(message.s))>>,
              <<"char_count", JNum(charCount(message.s))>>,
              <<"timestamp", toISOString(IntDigits(clock))>> >>))

\* -------------------------------------------------------- enhanced server
\* The names registered with server.registerTool, in registration order.
RegisteredTools ==
  <<"echo", "format", "analyze", "hash", "uuid", "timestamp", "base64", "json",
    "random", "info">>

ToolNames(build_) ==
  IF build_ = "legacy" THEN LegacyTools
  ELSE {RegisteredTools[i] : i \in 1..Len(RegisteredTools)}

\* One property of an inputSchema.  kind is the zod type; presence is
\* "required", "optional" (.optional()) or "default" (.default(v)); min and max
\* bound a string's length or a number's value, -1 standing for no bound;
\* kind "integer" is z.number().int(); allowed lists an enum's values.
ArgSpec(name, kind, presence, default, min, max, allowed) ==
  [name |-> name, kind |-> kind, presence |-> presence, default |-> default,
   min |-> min, max |-> max, allowed |-> allowed]

\* A keyword (an enum value such as "uppercase") as a string of one unit.
Word(w) == Str(<<w>>)

EchoTransforms ==
  {"none", "uppercase", "lowercase", "titlecase", "snake_case", "kebab-case", "camelCase"}

echoSchema ==
  << ArgSpec("message", "string", "required", Absent, 1, 10000, {}),
     ArgSpec("transform", "enum", "optional", Absent, -1, -1, EchoTransforms),
     ArgSpec("includeHash", "boolean", "optional", Absent, -1, -1, {}) >>

FormatOperations ==
  {"uppercase", "lowercase", "titlecase", "reverse", "trim", "remove_spaces",
   "remove_punctuation", "slugify", "sentence_case"}

formatSchema ==
  << ArgSpec("text", "string", "required", Absent, 1, -1, {}),
     ArgSpec("operation", "enum", "required", Absent, -1, -1, FormatOperations) >>

analyzeSchema ==
  << ArgSpec("text", "string", "required", Absent, 1, -1, {}),
     ArgSpec("includeCharFrequency", "boolean", "optional", Absent, -1, -1, {}) >>

Base64Operations == {"encode", "decode"}

base64Schema ==
  << ArgSpec("operation", "enum", "required", Absent, -1, -1, Base64Operations),
     ArgSpec("data", "string", "required", Absent, 0, -1, {}),
     ArgSpec("urlSafe", "boolean", "default", Bool(FALSE), -1, -1, {}) >>

HashAlgorithms == {"md5", "sha1", "sha256", "sha512", "sha3-256"}
HashEncodings == {"hex", "base64", "base64url"}

hashSchema ==
  << ArgSpec("data", "string", "required", Absent, 0, -1, {}),
     ArgSpec("algorithm", "enum", "default", Word("sha256"), -1, -1, HashAlgorithms),
     ArgSpec("encoding", "enum", "default", Word("hex"), -1, -1, HashEncodings) >>

uuidSchema ==
  << ArgSpec("version", "enum", "default", Word("v4"), -1, -1, {"v4", "v7"}),
     ArgSpec("count", "integer", "default", Num(1), 1, 100, {}),
     ArgSpec("uppercase", "boolean", "default", Bool(FALSE), -1, -1, {}) >>

TimestampOperations == {"now", "convert", "add", "format"}
TimestampFormats == {"iso", "unix_ms", "unix_s", "utc", "locale", "date_only", "time_only"}

timestampSchema ==
  << ArgSpec("operation", "enum", "default", Word("now"), -1, -1, TimestampOperations),
     ArgSpec("value", "string", "optional", Absent, 0, -1, {}),
     ArgSpec("format", "enum", "default", Word("iso"), -1, -1, TimestampFormats),
     ArgSpec("addMs", "number", "optional", Absent, -1, -1, {}) >>

JsonOperations == {"validate", "format", "minify", "get_keys", "get_type"}

jsonSchema ==
  << ArgSpec("operation", "enum", "default", Word("validate"), -1, -1, JsonOperations),
     ArgSpec("data", "string", "required", Absent, 0, -1, {}),
     ArgSpec("indent", "integer", "default", Num(2), 0, 8, {}) >>

randomSchema ==
  << ArgSpec("type", "enum", "default", Word("integer"), -1, -1,
             {"integer", "float", "hex", "alphanumeric", "string", "boolean"}),
     ArgSpec("min", "number", "optional", Absent, -1, -1, {}),
     ArgSpec("max", "number", "optional", Absent, -1, -1, {}),
     ArgSpec("length", "integer", "default", Num(16), 1, 1000, {}),
     ArgSpec("count", "integer", "default", Num(1), 1, 100, {}) >>

infoSchema ==
  << ArgSpec("detail", "enum", "default", Word("basic"), -1, -1, {"basic", "full"}) >>

inputSchema(tool) ==
  CASE tool = "echo" -> echoSchema
    [] tool = "json" -> jsonSchema
    [] tool = "timestamp" -> timestampSchema
    [] tool = "format" -> formatSchema
    [] tool = "hash" -> hashSchema
    [] tool = "uuid" -> uuidSchema
    [] tool = "random" -> randomSchema
    [] tool = "info" -> infoSchema
    [] tool = "analyze" -> analyzeSchema
    [] tool = "base64" -> base64Schema
    [] OTHER -> <<>>

ArgValid(spec, args) ==
  LET
      \* zod's check of one present value against its property.
      TypeValid(p, v) ==
        CASE p.kind = "string" ->
               /\ v.t = "string"
               /\ Len(v.s) >= p.min
               /\ (p.max < 0 \/ Len(v.s) <= p.max)
          [] p.kind = "enum" -> v.t = "string" /\ Len(v.s) = 1 /\ v.s[1] \in p.allowed
          [] p.kind = "boolean" -> v.t = "boolean"
          [] p.kind \in {"number", "integer"} ->
               /\ v.t = "number"
               /\ (p.kind = "integer" => v.s = <<>>)
               /\ (p.min < 0 \/ Twice(v) >= 2 * p.min)
               /\ (p.max < 0 \/ Twice(v) <= 2 * p.max)
          [] OTHER -> FALSE
  IN
    LET v == Arg(args, spec.name) IN
    IF v.t = "absent" THEN spec.presence # "required" ELSE TypeValid(spec, v)

\* The answer to a tools/list request.  The legacy handler returns a literal
\* with one tool; McpServer lists what was registered, in registration order,
\* with each inputSchema rendered as a JSON Schema of type "object" (a property
\* is required unless it is optional or has a default).
Listing(build_) ==
  LET description(tool) ==
        CASE tool = "echo" ->
               "Echo a message with comprehensive metadata and optional transformations. ..."
          [] tool = "format" -> "Format text with various transformations"
          [] tool = "analyze" -> "Analyze text and provide detailed statistics"
          [] tool = "hash" -> "Generate cryptographic hashes of input data"
          [] tool = "uuid" -> "Generate UUIDs (Universally Unique Identifiers)"
          [] tool = "timestamp" -> "Generate and convert timestamps in various formats"
          [] tool = "base64" -> "Encode or decode Base64 data"
          [] tool = "json" -> "Validate, format, and analyze JSON data"
          [] tool = "random" -> "Generate random data (numbers, strings, hex, etc.)"
          [] tool = "info" -> "Get information about this MCP server and its capabilities"
      jsonType(kind) == IF kind = "enum" THEN "string" ELSE kind
      ObjectSchema(props, required) ==
        [type |-> "object",
         properties |-> [i \in 1..Len(props) |->
                           [name |-> props[i].name, type |-> jsonType(props[i].kind)]],
         required |-> [i \in 1..Len(required) |-> required[i].name]]
      IsRequired(p) == p.presence = "required"
  IN IF build_ = "legacy"
     THEN << [name |-> "echo",
              description |-> <<"Echo a message with metadata including timestamp, word count, character count, and reversed text">>,
              inputSchema |-> ObjectSchema(legacyInputSchema,
                                           SelectSeq(legacyInputSchema, LAMBDA p : p.required))] >>
     ELSE [i \in 1..Len(RegisteredTools) |->
             LET tool == RegisteredTools[i] IN
             [name |-> tool,
              description |-> <<description(tool)>>,
              inputSchema |-> ObjectSchema(inputSchema(tool),
                                           SelectSeq(inputSchema(tool), IsRequired))]]

\* Validation of a payload against a tool's inputSchema: whether it passed,
\* the first offending property in declared order, and the parsed arguments
\* (properties the schema does not declare are dropped).
validate(tool, args) ==
  LET
      \* The value the handler receives for a property: the value given, the
      \* declared default when it is absent, Absent (undefined) otherwise.
      ArgParsed(p, given) ==
        LET v == Arg(given, p.name) IN
        IF v.t = "absent" /\ p.presence = "default" THEN p.default ELSE v
  IN
    LET schema == inputSchema(tool)
        bad == {i \in 1..Len(schema) : ~ArgValid(schema[i], args)}
        first == CHOOSE i \in bad : \A j \in bad : i <= j
        names == {schema[i].name : i \in 1..Len(schema)}
        specOf(k) == schema[CHOOSE i \in 1..Len(schema) : schema[i].name = k]
    IN [ok |-> bad = {},
        arg |-> IF bad = {} THEN "" ELSE schema[first].name,
        args |-> [k \in names |-> ArgParsed(specOf(k), args)]]

\* A catch block that throws the error on.
ErrorEnvelope_Rethrown(tool, msg) == Thrown(tool, msg)

\* An error envelope of a handler's catch block:
\* {content: [{type: "text", text: `Error: ${message}`}], isError: true}
ErrorEnvelope(tool, msg) ==
  [kind |-> "returned", isError |-> TRUE, lit |-> <<"Error: ">> \o msg,
   json |-> NoJson, message |-> <<>>, ran |-> tool]

\* What McpServer does with a call that reaches no handler (a name that is not
\* registered, a payload that fails the inputSchema).  The text is the
\* library's, not this repository's; depending on the library version the
\* failure is thrown as a protocol error or returned as an error envelope.
SdkFailure(throws, msg) ==
  IF throws
  THEN Thrown("", msg)
  ELSE [kind |-> "returned", isError |-> TRUE, lit |-> msg, json |-> NoJson,
        message |-> <<>>, ran |-> ""]

\* ------------------------------------------------------------ tool 1: echo
\* message.replace(/\s/g, "").length
charCountNoSpaces(message) == Len(SelectSeq(message, LAMBDA c : ~IsSpace(c)))

\* s.replace(/[\s]+/g, rep): every maximal whitespace run becomes rep.
RECURSIVE ReplaceSpaceRuns(_, _, _, _)
ReplaceSpaceRuns(s, i, rep, prevWs) ==
  IF i > Len(s) THEN <<>>
  ELSE IF IsSpace(s[i])
       THEN (IF prevWs THEN <<>> ELSE rep) \o ReplaceSpaceRuns(s, i + 1, rep, TRUE)
       ELSE <<s[i]>> \o ReplaceSpaceRuns(s, i + 1, rep, FALSE)

\* s.replace(/\w\S*/g, txt => txt.charAt(0).toUpperCase() + txt.substr(1).toLowerCase())
RECURSIVE TitleRec(_, _, _)
TitleRec(s, i, inMatch) ==
  IF i > Len(s) THEN <<>>
  ELSE IF inMatch
       THEN IF IsSpace(s[i])
            THEN <<s[i]>> \o TitleRec(s, i + 1, FALSE)
            ELSE <<LowerChar(s[i])>> \o TitleRec(s, i + 1, TRUE)
       ELSE IF IsWord(s[i])
            THEN <<UpperChar(s[i])>> \o TitleRec(s, i + 1, TRUE)
            ELSE <<s[i]>> \o TitleRec(s, i + 1, FALSE)

titlecase(s) == TitleRec(s, 1, FALSE)

camelCase(s) ==
  LET
      \* s.replace(/(?:^\w|[A-Z]|\b\w)/g, (word, index) =>
      \*     index === 0 ? word.toLowerCase() : word.toUpperCase()).replace(/\s+/g, "")
      CamelMatch(str, i) ==
        \/ i = 1 /\ IsWord(str[1])
        \/ IsUpperAZ(str[i])
        \/ IsWord(str[i]) /\ (i = 1 \/ ~IsWord(str[i - 1]))
  IN
    ReplaceSpaceRuns(
      [i \in 1..Len(s) |->
         IF CamelMatch(s, i)
         THEN (IF i = 1 THEN LowerChar(s[i]) ELSE UpperChar(s[i]))
         ELSE s[i]],
      1, <<>>, FALSE)

\* The switch on transform of the echo handler.
transformed(message, transform) ==
  CASE transform = "uppercase" -> toUpperCase(message)
    [] transform = "lowercase" -> toLowerCase(message)
    [] transform = "titlecase" -> titlecase(message)
    [] transform = "snake_case" -> toLowerCase(ReplaceSpaceRuns(message, 1, <<"_">>, FALSE))
    [] transform = "kebab-case" -> toLowerCase(ReplaceSpaceRuns(message, 1, <<"-">>, FALSE))
    [] transform = "camelCase" -> camelCase(message)
    [] OTHER -> message

\* The keyword carried by a parsed enum argument, dflt when it is undefined.
Keyword(v, dflt) == IF v.t = "absent" THEN dflt ELSE v.s[1]
Flag(v, dflt) == IF v.t = "absent" THEN dflt ELSE v.n = 1

\* The response object of the echo handler, before the undefined values are
\* deleted from it.
echoResponse(message, transform, includeHash, clock) ==
  LET
      \* message.split(/\r\n|\r|\n/).length
      lineCount(m) ==
        1 + Cardinality({i \in 1..Len(m) :
                           \/ m[i] = "\r"
                           \/ m[i] = "\n" /\ (i = 1 \/ m[i - 1] # "\r")})
  IN
    << <<"original", JStr(message)>>,
       <<"transformed",
         IF transform # "none" THEN JStr(transformed(message, transform)) ELSE JUndefined>>,
       <<"reversed", JStr(reversed(message))>>,
       <<"stats", JObj(<<
           <<"word_count", JNum(wordCount(message))>>,
           <<"char_count", JNum(charCount(message))>>,
           <<"char_count_no_spaces", JNum(charCountNoSpaces(message))>>,
           <<"line_count", JNum(lineCount(message))>>,
           <<"avg_word_length",
             IF wordCount(message) > 0
             THEN toFixed2(charCountNoSpaces(message), wordCount(message))
             ELSE JNum(0)>> >>)>>,
       <<"timestamps", JObj(<<
           <<"iso", toISOString(IntDigits(clock))>>,
           <<"unix", JNum(clock)>>,
           <<"utc", toUTCString(IntDigits(clock))>>,
           <<"locale", toLocaleString(IntDigits(clock))>> >>)>>,
       <<"encoding", JObj(<<
           <<"base64", bufferToString(message, "base64")>>,
           <<"base64url", bufferToString(message, "base64url")>> >>)>> >>
    \o (IF includeHash
        THEN << <<"hashes", JObj(<<
                  <<"md5", digest("md5", message, "hex")>>,
                  <<"sha256", digest("sha256", message, "hex")>>,
                  <<"sha512", digest("sha512", message, "hex")>> >>)>> >>
        ELSE <<>>)

\* An echo handler that transforms message itself instead of a copy.
echoHandler_InPlace(args, clock) ==
  LET transform == Keyword(args["transform"], "none")
      message == transformed(args["message"].s, transform)
      includeHash == Flag(args["includeHash"], FALSE)
      response == echoResponse(message, transform, includeHash, clock)
  IN Success("echo", JObj(SelectSeq(response, IsDefined)))

\* The echo handler: async (args) => { ... }
echoHandler(args, clock) ==
  LET message == args["message"].s
      transform == Keyword(args["transform"], "none")
      includeHash == Flag(args["includeHash"], FALSE)
      response == echoResponse(message, transform, includeHash, clock)
  IN Success("echo", JObj(SelectSeq(response, IsDefined)))

\* ---------------------------------------------------------- tool 2: format

\* Whether the unit at i is the [a-z] of a match of /([.!?]\s+)([a-z])/ in s:
\* a lower-case letter after a whitespace run that follows a ., ! or ?.
RECURSIVE AfterSentenceEnd(_, _)
AfterSentenceEnd(s, j) ==
  LET
      IsSentenceEnd(c) == c \in {".", "!", "?"}
  IN
    IF j < 1 THEN FALSE
    ELSE IF IsSpace(s[j]) THEN AfterSentenceEnd(s, j - 1)
    ELSE IsSentenceEnd(s[j])

\* text.toLowerCase().replace(/(^")|([.!?]\s+)([a-z])/g, ...) and then the first
\* unit in upper case.
sentenceCase(text) ==
  LET
      SentenceStart(s, i) ==
        /\ IsLowerAZ(s[i])
        /\ i > 2
        /\ IsSpace(s[i - 1])
        /\ AfterSentenceEnd(s, i - 1)
  IN
    LET lower == toLowerCase(text)
        result == [i \in 1..Len(lower) |->
                     IF SentenceStart(lower, i) THEN UpperChar(lower[i]) ELSE lower[i]]
    IN [i \in 1..Len(result) |-> IF i = 1 THEN UpperChar(result[i]) ELSE result[i]]

\* s.replace(/-+/g, "-")
RECURSIVE CollapseHyphens(_, _, _)
CollapseHyphens(s, i, prevHyphen) ==
  IF i > Len(s) THEN <<>>
  ELSE IF s[i] = "-"
       THEN (IF prevHyphen THEN <<>> ELSE <<"-">>) \o CollapseHyphens(s, i + 1, TRUE)
       ELSE <<s[i]>> \o CollapseHyphens(s, i + 1, FALSE)

\* text.toLowerCase().replace(/[^\w\s-]/g, "").replace(/[\s]+/g, "-")
\*     .replace(/-+/g, "-").trim()
slugify(text) ==
  LET kept == SelectSeq(toLowerCase(text), LAMBDA c : IsWord(c) \/ IsSpace(c) \/ c = "-")
  IN trim(CollapseHyphens(ReplaceSpaceRuns(kept, 1, <<"-">>, FALSE), 1, FALSE))

\* The switch on operation of the format handler.
formatResult(text, operation) ==
  CASE operation = "uppercase" -> toUpperCase(text)
    [] operation = "lowercase" -> toLowerCase(text)
    [] operation = "titlecase" -> titlecase(text)
    [] operation = "sentence_case" -> sentenceCase(text)
    [] operation = "reverse" -> reversed(text)
    [] operation = "trim" -> trim(text)
    [] operation = "remove_spaces" -> SelectSeq(text, LAMBDA c : ~IsSpace(c))
    [] operation = "remove_punctuation" ->
         SelectSeq(text, LAMBDA c : IsWord(c) \/ IsSpace(c))
    [] operation = "slugify" -> slugify(text)
    [] OTHER -> text

\* A format handler that stamps its result with the time of the call.
formatHandler_Stamped(args) ==
  Success("format", JObj(<<
    <<"original", JStr(args["text"].s)>>,
    <<"operation", JStr(<<args["operation"].s[1]>>)>>,
    <<"result", JStr(formatResult(args["text"].s, args["operation"].s[1]))>>,
    <<"timestamp", toISOString(IntDigits(now))>> >>))

formatHandler(args) ==
  LET text == args["text"].s
      operation == args["operation"].s[1]
  IN Success("format", JObj(<<
       <<"original", JStr(text)>>,
       <<"operation", JStr(<<operation>>)>>,
       <<"result", JStr(formatResult(text, operation))>> >>))

\* ---------------------------------------------------------- tool 3: analyze
\* The members of a finite set of integers, in ascending order.
Ascending(S) ==
  [k \in 1..Cardinality(S) |-> CHOOSE i \in S : Cardinality({j \in S : j < i}) = k - 1]

\* String.prototype.split(re) for an re that matches maximal runs of
\* separators; seps holds the positions of s that lie in a separator.  A
\* separator at either end leaves an empty piece there.
Pieces(s, seps) ==
  LET SepAt(i) == i \in seps
      starts == {i \in 1..Len(s) : ~SepAt(i) /\ (i = 1 \/ SepAt(i - 1))}
      EndOf(i) == CHOOSE j \in i..Len(s) :
                    (\A k \in i..j : ~SepAt(k)) /\ (j = Len(s) \/ SepAt(j + 1))
      order == Ascending(starts)
  IN (IF Len(s) = 0 \/ SepAt(1) THEN << <<>> >> ELSE <<>>)
     \o [k \in 1..Len(order) |-> SubSeq(s, order[k], EndOf(order[k]))]
     \o (IF Len(s) > 0 /\ SepAt(Len(s)) THEN << <<>> >> ELSE <<>>)

\* s => s.trim().length > 0
NonBlank(piece) == Len(trim(piece)) > 0

\* text.trim().split(/\s+/).filter(w => w.length > 0)
analyzeWords(text) == SelectSeq(splitWhitespace(trim(text)), NonEmpty)
\* text.split(/[.!?]+/).filter(s => s.trim().length > 0)
analyzeSentences(text) ==
  SelectSeq(Pieces(text, {i \in 1..Len(text) : text[i] \in {".", "!", "?"}}), NonBlank)
\* text.split(/\n\n+/).filter(p => p.trim().length > 0)
analyzeParagraphs(text) ==
  SelectSeq(Pieces(text, {i \in 1..Len(text) :
                             /\ text[i] = "\n"
                             /\ \/ i > 1 /\ text[i - 1] = "\n"
                                \/ i < Len(text) /\ text[i + 1] = "\n"}),
            NonBlank)

\* (text.match(re) || []).length for each character class:
\* /[a-zA-Z]/g, /\d/g, /\s/g, /[^\w\s]/g
letters(text) ==
  Cardinality({i \in 1..Len(text) : IsUpperAZ(text[i]) \/ IsLowerAZ(text[i])})
digits(text) == Cardinality({i \in 1..Len(text) : IsDigit(text[i])})
spaces(text) == Cardinality({i \in 1..Len(text) : IsSpace(text[i])})
\* /[^\s]/g in the place of /[^\w\s]/g
punctuation_NonSpace(text) == Cardinality({i \in 1..Len(text) : ~IsSpace(text[i])})
punctuation(text) ==
  Cardinality({i \in 1..Len(text) : ~IsWord(text[i]) /\ ~IsSpace(text[i])})

complexity(w, s) ==
  IF w > 0 /\ s > 0
  THEN (IF w > 20 * s THEN "complex" ELSE IF w > 10 * s THEN "moderate" ELSE "simple")
  ELSE "unknown"

analyzeHandler(args) ==
  LET
      \* wordLengths: a count per word length; integer-like keys enumerate in
      \* ascending order.
      wordLengths(words) ==
        LET lens == Ascending({Len(words[k]) : k \in 1..Len(words)})
        IN JObj([n \in 1..Len(lens) |->
                   <<ToString(lens[n]),
                     JNum(Cardinality({k \in 1..Len(words) : Len(words[k]) = lens[n]}))>>])
      \* freq: a count per letter of text.toLowerCase(), keys in order of first
      \* occurrence.
      charFrequency(text) ==
        LET lower == toLowerCase(text)
            firsts == Ascending({i \in 1..Len(lower) :
                        IsLowerAZ(lower[i]) /\ \A j \in 1..(i - 1) : lower[j] # lower[i]})
        IN JObj([n \in 1..Len(firsts) |->
                   <<lower[firsts[n]],
                     JNum(Cardinality({i \in 1..Len(lower) : lower[i] = lower[firsts[n]]}))>>])
  IN
    LET text == args["text"].s
        includeCharFrequency == Flag(args["includeCharFrequency"], FALSE)
        w == Len(analyzeWords(text))
        s == Len(analyzeSentences(text))
        p == Len(analyzeParagraphs(text))
        noSpaces == charCountNoSpaces(text)
    IN Success("analyze", JObj(<<
         <<"counts", JObj(<<
             <<"characters", JNum(Len(text))>>,
             <<"characters_no_spaces", JNum(noSpaces)>>,
             <<"words", JNum(w)>>,
             <<"sentences", JNum(s)>>,
             <<"paragraphs", JNum(p)>> >>)>>,
         <<"averages", JObj(<<
             <<"words_per_sentence", IF s > 0 THEN toFixed2(w, s) ELSE JNum(0)>>,
             <<"chars_per_word", IF w > 0 THEN toFixed2(noSpaces, w) ELSE JNum(0)>>,
             <<"sentences_per_paragraph", IF p > 0 THEN toFixed2(s, p) ELSE JNum(0)>> >>)>>,
         <<"composition", JObj(<<
             <<"letters", JNum(letters(text))>>,
             <<"digits", JNum(digits(text))>>,
             <<"spaces", JNum(spaces(text))>>,
             <<"punctuation", JNum(punctuation(text))>>,
             <<"other", JNum(Len(text) - letters(text) - digits(text) - spaces(text)
                             - punctuation(text))>> >>)>>,
         <<"word_length_distribution", wordLengths(analyzeWords(text))>>,
         <<"readability", JObj(<<
             <<"estimated_reading_time_min", JNum((w + 199) \div 200)>>,
             <<"complexity", JStr(<<complexity(w, s)>>)>> >>)>>,
         <<"character_frequency",
           IF includeCharFrequency THEN charFrequency(text) ELSE JUndefined>> >>))

\* ------------------------------------------------------------ tool 4: hash
hashHandler(args) ==
  LET data == args["data"].s
      algorithm == Keyword(args["algorithm"], "sha256")
      encoding == Keyword(args["encoding"], "hex")
      result == CASE encoding = "base64" -> digest(algorithm, data, "base64")
                  [] encoding = "base64url" -> digest(algorithm, data, "base64url")
                  [] OTHER -> digest(algorithm, data, "hex")
  IN Success("hash", JObj(<<
       <<"input_length", JNum(Len(data))>>,
       <<"algorithm", JStr(<<algorithm>>)>>,
       <<"encoding", JStr(<<encoding>>)>>,
       <<"hash", result>> >>))

\* ------------------------------------------------------------ tool 5: uuid
\* The i-th value the random source yields during a call (i from 1).
Draw(rand, i) == rand[((i - 1) % Len(rand)) + 1]

\* A loop that pushes one identifier too many.
uuidHandler_OneMore(args, rand) ==
  LET count == args["count"].n
  IN Success("uuid", JObj(<<
       <<"version", JStr(args["version"].s)>>,
       <<"count", JNum(count + 1)>>,
       <<"uuids", JArr([i \in 1..(count + 1) |-> JLib("randomUUID()", <<>>, Draw(rand, i))])>> >>))

\* randomUUID() is kept symbolically, told apart by the draw it came from.
uuidHandler(args, rand) ==
  LET version == Keyword(args["version"], "v4")
      count == IF args["count"].t = "absent" THEN 1 ELSE args["count"].n
      uppercase == Flag(args["uppercase"], FALSE)
      uuid(i) == JLib(IF uppercase THEN "randomUUID().toUpperCase()" ELSE "randomUUID()",
                      <<>>, Draw(rand, i))
      uuids == [i \in 1..count |-> uuid(i)]
  IN Success("uuid", JObj(<<
       <<"version", JStr(<<version>>)>>,
       <<"count", JNum(Len(uuids))>>,
       <<"uuids", JArr(uuids)>> >>))

\* ------------------------------------------------------- tool 6: timestamp

\* The same with num <= 10000000000 read as seconds.
valueDate_LimitInSeconds(value) ==
  LET
      AllDigits(v) == Len(v) > 0 /\ \A i \in 1..Len(v) : IsDigit(v[i])
      \* num * 1000 and Math.floor(ms / 1000)
      Times1000(ds) == IF ds = <<"0">> THEN ds ELSE ds \o <<"0", "0", "0">>
      \* new Date(string).  Of the strings the inputs are drawn from the parser
      \* recognises the ISO sample; the others give an invalid Date.
      DateParse(v) ==
        LET IsoSampleTime == <<"1", "7", "0", "4", "0", "6", "7", "2", "0", "0", "0", "0", "0">>
        IN IF v = IsoSample THEN DateOf(IsoSampleTime) ELSE InvalidDate
  IN
    IF AllDigits(value)
    THEN LET num == Canon(value)
         IN DateOf(IF ~DigitsLess(SecondsLimit, num) THEN Times1000(num) ELSE num)
    ELSE DateParse(value)

\* The Date the convert and add branches build from value:
\*   /^\d+$/.test(value) ? new Date(num < 10000000000 ? num * 1000 : num)
\*                       : new Date(value)
valueDate(value) ==
  LET
      AllDigits(v) == Len(v) > 0 /\ \A i \in 1..Len(v) : IsDigit(v[i])
      \* num * 1000 and Math.floor(ms / 1000)
      Times1000(ds) == IF ds = <<"0">> THEN ds ELSE ds \o <<"0", "0", "0">>
      \* new Date(string).  Of the strings the inputs are drawn from the parser
      \* recognises the ISO sample; the others give an invalid Date.
      DateParse(v) ==
        LET IsoSampleTime == <<"1", "7", "0", "4", "0", "6", "7", "2", "0", "0", "0", "0", "0">>
        IN IF v = IsoSample THEN DateOf(IsoSampleTime) ELSE InvalidDate
  IN
    IF AllDigits(value)
    THEN LET num == Canon(value)
         IN DateOf(IF DigitsLess(num, SecondsLimit) THEN Times1000(num) ELSE num)
    ELSE DateParse(value)

\* The switch on format: the result field.
timestampResult(format, ms) ==
  CASE format = "iso" -> toISOString(ms)
    [] format = "unix_ms" -> JBig(ms)
    [] format = "unix_s" -> JBig(Div1000(ms))
    [] format = "utc" -> toUTCString(ms)
    [] format = "locale" -> toLocaleString(ms)
    [] format = "date_only" -> dateOnly(ms)
    [] format = "time_only" -> timeOnly(ms)
    [] OTHER -> toISOString(ms)

\* The handler without its isNaN(date.getTime()) checks.
timestampHandler_Unchecked(args, clock) ==
  LET operation == Keyword(args["operation"], "now")
      value == args["value"]
      format == Keyword(args["format"], "iso")
      addMs == args["addMs"]
      noValue == value.t = "absent" \/ Len(value.s) = 0
      base == IF noValue THEN InvalidDate ELSE valueDate(value.s)
      date == IF operation = "convert" THEN base
              ELSE IF operation = "add"
              THEN (IF base.valid /\ addMs.t = "number"
                    THEN DateOf(AddDigits(base.ms, addMs.n)) ELSE InvalidDate)
              ELSE DateOf(IntDigits(clock))
      thrown ==
        IF operation = "convert" /\ noValue
        THEN <<"Value required for convert operation">>
        ELSE IF operation = "add" /\ (noValue \/ addMs.t = "absent")
        THEN <<"Value and addMs required for add operation">>
        \* date.toISOString() of an invalid Date: a RangeError
        ELSE IF ~date.valid THEN <<"Invalid time value">>
        ELSE <<>>
  IN IF thrown # <<>>
     THEN ErrorEnvelope("timestamp", thrown)
     ELSE Success("timestamp", JObj(<<
            <<"operation", JStr(<<operation>>)>>,
            <<"format", JStr(<<format>>)>>,
            <<"result", timestampResult(format, date.ms)>>,
            <<"all_formats", JObj(<<
                <<"iso", toISOString(date.ms)>>,
                <<"unix_ms", JBig(date.ms)>>,
                <<"unix_s", JBig(Div1000(date.ms))>>,
                <<"utc", toUTCString(date.ms)>>,
                <<"locale", toLocaleString(date.ms)>>,
                <<"date_only", dateOnly(date.ms)>>,
                <<"time_only", timeOnly(date.ms)>> >>)>> >>))

\* A handler whose format operation renders the value given.
timestampHandler_FormatReadsValue(args, clock) ==
  LET operation == Keyword(args["operation"], "now")
      value == args["value"]
      format == Keyword(args["format"], "iso")
      addMs == args["addMs"]
      noValue == value.t = "absent" \/ Len(value.s) = 0
      base == IF noValue THEN InvalidDate ELSE valueDate(value.s)
      date == IF operation = "convert" THEN base
              ELSE IF operation = "add"
              THEN (IF base.valid /\ addMs.t = "number"
                    THEN DateOf(AddDigits(base.ms, addMs.n)) ELSE InvalidDate)
              ELSE IF operation = "format" /\ ~noValue THEN base
              ELSE DateOf(IntDigits(clock))
      thrown ==
        IF operation = "convert" /\ noValue
        THEN <<"Value required for convert operation">>
        ELSE IF operation = "add" /\ (noValue \/ addMs.t = "absent")
        THEN <<"Value and addMs required for add operation">>
        ELSE IF operation \in {"convert", "add"} /\ ~base.valid
        THEN <<"Invalid date value">>
        \* date.toISOString() of an invalid Date: a RangeError
        ELSE IF ~date.valid THEN <<"Invalid time value">>
        ELSE <<>>
  IN IF thrown # <<>>
     THEN ErrorEnvelope("timestamp", thrown)
     ELSE Success("timestamp", JObj(<<
            <<"operation", JStr(<<operation>>)>>,
            <<"format", JStr(<<format>>)>>,
            <<"result", timestampResult(format, date.ms)>>,
            <<"all_formats", JObj(<<
                <<"iso", toISOString(date.ms)>>,
                <<"unix_ms", JBig(date.ms)>>,
                <<"unix_s", JBig(Div1000(date.ms))>>,
                <<"utc", toUTCString(date.ms)>>,
                <<"locale", toLocaleString(date.ms)>>,
                <<"date_only", dateOnly(date.ms)>>,
                <<"time_only", timeOnly(date.ms)>> >>)>> >>))

timestampHandler(args, clock) ==
  LET operation == Keyword(args["operation"], "now")
      value == args["value"]
      format == Keyword(args["format"], "iso")
      addMs == args["addMs"]
      noValue == value.t = "absent" \/ Len(value.s) = 0
      base == IF noValue THEN InvalidDate ELSE valueDate(value.s)
      date == IF operation = "convert" THEN base
              ELSE IF operation = "add"
              THEN (IF base.valid /\ addMs.t = "number"
                    THEN DateOf(AddDigits(base.ms, addMs.n)) ELSE InvalidDate)
              ELSE DateOf(IntDigits(clock))
      thrown ==
        IF operation = "convert" /\ noValue
        THEN <<"Value required for convert operation">>
        ELSE IF operation = "add" /\ (noValue \/ addMs.t = "absent")
        THEN <<"Value and addMs required for add operation">>
        ELSE IF operation \in {"convert", "add"} /\ ~base.valid
        THEN <<"Invalid date value">>
        \* date.toISOString() of an invalid Date: a RangeError
        ELSE IF ~date.valid THEN <<"Invalid time value">>
        ELSE <<>>
  IN IF thrown # <<>>
     THEN ErrorEnvelope("timestamp", thrown)
     ELSE Success("timestamp", JObj(<<
            <<"operation", JStr(<<operation>>)>>,
            <<"format", JStr(<<format>>)>>,
            <<"result", timestampResult(format, date.ms)>>,
            <<"all_formats", JObj(<<
                <<"iso", toISOString(date.ms)>>,
                <<"unix_ms", JBig(date.ms)>>,
                <<"unix_s", JBig(Div1000(date.ms))>>,
                <<"utc", toUTCString(date.ms)>>,
                <<"locale", toLocaleString(date.ms)>>,
                <<"date_only", dateOnly(date.ms)>>,
                <<"time_only", timeOnly(date.ms)>> >>)>> >>))

\* ---------------------------------------------------------- tool 7: base64
\* The code units 0..127, unit k at index k + 1.
Ascii ==
  <<
    "<00>", "<01>", "<02>", "<03>", "<04>", "<05>", "<06>", "<07>", "<08>", "\t", "\n", "<0b>", "<0c>", "\r", "<0e>", "<0f>",
    "<10>", "<11>", "<12>", "<13>", "<14>", "<15>", "<16>", "<17>", "<18>", "<19>", "<1a>", "<1b>", "<1c>", "<1d>", "<1e>", "<1f>",
    " ", "!", "\"", "#", "$", "%", "&", "'", "(", ")", "*", "+", ",", "-", ".", "/",
    "0", "1", "2", "3", "4", "5", "6", "7", "8", "9", ":", ";", "<", "=", ">", "?",
    "@", "A", "B", "C", "D", "E", "F", "G", "H", "I", "J", "K", "L", "M", "N", "O",
    "P", "Q", "R", "S", "T", "U", "V", "W", "X", "Y", "Z", "[", "\\", "]", "^", "_",
    "<60>", "a", "b", "c", "d", "e", "f", "g", "h", "i", "j", "k", "l", "m", "n", "o",
    "p", "q", "r", "s", "t", "u", "v", "w", "x", "y", "z", "{", "|", "}", "~", "<7f>" >>

\* The alphabets of the "base64" and "base64url" encodings.
Base64Alphabet ==
  <<
    "A", "B", "C", "D", "E", "F", "G", "H", "I", "J", "K", "L", "M", "N", "O", "P",
    "Q", "R", "S", "T", "U", "V", "W", "X", "Y", "Z", "a", "b", "c", "d", "e", "f",
    "g", "h", "i", "j", "k", "l", "m", "n", "o", "p", "q", "r", "s", "t", "u", "v",
    "w", "x", "y", "z", "0", "1", "2", "3", "4", "5", "6", "7", "8", "9", "+", "/" >>
Base64UrlAlphabet ==
  <<
    "A", "B", "C", "D", "E", "F", "G", "H", "I", "J", "K", "L", "M", "N", "O", "P",
    "Q", "R", "S", "T", "U", "V", "W", "X", "Y", "Z", "a", "b", "c", "d", "e", "f",
    "g", "h", "i", "j", "k", "l", "m", "n", "o", "p", "q", "r", "s", "t", "u", "v",
    "w", "x", "y", "z", "0", "1", "2", "3", "4", "5", "6", "7", "8", "9", "-", "_" >>

IndexIn(table, c) == CHOOSE i \in 1..Len(table) : table[i] = c
Occurs(table, c) == \E i \in 1..Len(table) : table[i] = c

\* Buffer.from(data): the UTF-8 bytes of a string.  A surrogate pair is one
\* code point of four bytes; a lone surrogate is encoded as U+FFFD.
RECURSIVE utf8Encode(_, _)
utf8Encode(data, i) ==
  IF i > Len(data) THEN <<>>
  ELSE IF data[i] = "<hi>" /\ i < Len(data) /\ data[i + 1] = "<lo>"
  THEN <<240, 159, 152, 128>> \o utf8Encode(data, i + 2)
  ELSE IF data[i] \in {"<hi>", "<lo>", "<fffd>"}
  THEN <<239, 191, 189>> \o utf8Encode(data, i + 1)
  ELSE <<IndexIn(Ascii, data[i]) - 1>> \o utf8Encode(data, i + 1)

\* The number made of the `width` bits of the stream from bit j on.
BitsFrom(nums, from, j, width) ==
  LET
      \* Bit j (from 0, most significant first) of a sequence of width-bit numbers,
      \* 0 past its end.
      BitOf(ns, w, n) ==
        IF n \div w < Len(ns)
        THEN (ns[n \div w + 1] \div 2^(w - 1 - (n % w))) % 2
        ELSE 0
  IN
    LET b(k) == BitOf(nums, from, j + k) * 2^(width - 1 - k)
    IN IF width = 6 THEN b(0) + b(1) + b(2) + b(3) + b(4) + b(5)
       ELSE b(0) + b(1) + b(2) + b(3) + b(4) + b(5) + b(6) + b(7)

\* buffer.toString("base64" | "base64url"): six bits per character, "=" up to
\* a multiple of four characters in the standard alphabet only.
bufferToBase64(bytes, urlSafe) ==
  LET alphabet == IF urlSafe THEN Base64UrlAlphabet ELSE Base64Alphabet
      count == (8 * Len(bytes) + 5) \div 6
      padding == IF urlSafe THEN 0 ELSE (4 - (count % 4)) % 4
  IN [k \in 1..count |-> alphabet[BitsFrom(bytes, 8, 6 * (k - 1), 6) + 1]]
     \o [k \in 1..padding |-> "="]

\* Buffer.from(data, "base64" | "base64url"): the decoder accepts both
\* alphabets under either name, skips every character of neither, stops at
\* the first "=" and drops trailing bits that do not fill a byte; it does not
\* throw.
RECURSIVE base64Sextets(_, _)
base64Sextets(data, i) ==
  LET
      IsBase64Char(c) == Occurs(Base64Alphabet, c) \/ Occurs(Base64UrlAlphabet, c)
      \* The six-bit value of a character of either alphabet
      Unbase64(c) ==
        IF Occurs(Base64Alphabet, c) THEN IndexIn(Base64Alphabet, c) - 1
        ELSE IndexIn(Base64UrlAlphabet, c) - 1
  IN
    IF i > Len(data) \/ data[i] = "=" THEN <<>>
    ELSE IF IsBase64Char(data[i]) THEN <<Unbase64(data[i])>> \o base64Sextets(data, i + 1)
    ELSE base64Sextets(data, i + 1)

base64ToBuffer(data) ==
  LET sextets == base64Sextets(data, 1)
  IN [k \in 1..((6 * Len(sextets)) \div 8) |-> BitsFrom(sextets, 6, 8 * (k - 1), 8)]

IsContinuation(bytes, i, lo, hi) == i <= Len(bytes) /\ bytes[i] >= lo /\ bytes[i] <= hi

\* buffer.toString("utf-8"): each ill-formed maximal subpart becomes U+FFFD.
RECURSIVE utf8Decode(_, _)
utf8Decode(bytes, i) ==
  LET
      \* The UTF-16 units of a code point; "<hi>" "<lo>" is U+1F600, "<fffd>" the
      \* replacement character U+FFFD.
      UnitsOf(cp) ==
        IF cp < 128 THEN <<Ascii[cp + 1]>>
        ELSE IF cp = 65533 THEN <<"<fffd>">>
        ELSE IF cp = 128512 THEN <<"<hi>", "<lo>">>
        ELSE IF cp < 65536 THEN <<ToString(cp)>>
        ELSE <<"<hi>", ToString(cp)>>
  IN
    IF i > Len(bytes) THEN <<>>
    ELSE LET b == bytes[i]
             \* the range of the first continuation byte after lead byte b
             lo1 == IF b = 224 THEN 160 ELSE IF b = 240 THEN 144 ELSE 128
             hi1 == IF b = 237 THEN 159 ELSE IF b = 244 THEN 143 ELSE 191
             need == IF b < 128 THEN 0
                     ELSE IF b >= 194 /\ b <= 223 THEN 1
                     ELSE IF b >= 224 /\ b <= 239 THEN 2
                     ELSE IF b >= 240 /\ b <= 244 THEN 3
                     ELSE -1
             got == IF need < 1 \/ ~IsContinuation(bytes, i + 1, lo1, hi1) THEN 0
                    ELSE IF need < 2 \/ ~IsContinuation(bytes, i + 2, 128, 191) THEN 1
                    ELSE IF need < 3 \/ ~IsContinuation(bytes, i + 3, 128, 191) THEN 2
                    ELSE 3
             cp == CASE need = 0 -> b
                     [] need = 1 -> (b - 192) * 64 + (bytes[i + 1] - 128)
                     [] need = 2 -> (b - 224) * 4096 + (bytes[i + 1] - 128) * 64
                                    + (bytes[i + 2] - 128)
                     [] need = 3 -> (b - 240) * 262144 + (bytes[i + 1] - 128) * 4096
                                    + (bytes[i + 2] - 128) * 64 + (bytes[i + 3] - 128)
         IN IF need >= 0 /\ got = need
            THEN UnitsOf(cp) \o utf8Decode(bytes, i + need + 1)
            ELSE <<"<fffd>">> \o utf8Decode(bytes, i + got + 1)

base64Handler(args) ==
  LET operation == args["operation"].s[1]
      data == args["data"].s
      urlSafe == Flag(args["urlSafe"], FALSE)
      encoded == bufferToBase64(utf8Encode(data, 1), urlSafe)
      decoded == utf8Decode(base64ToBuffer(data), 1)
      result == IF operation = "encode" THEN encoded ELSE decoded
  IN Success("base64", JObj(<<
       <<"operation", JStr(<<operation>>)>>,
       <<"input_length", JNum(Len(data))>>,
       <<"output_length", JNum(Len(result))>>,
       <<"url_safe", JBool(urlSafe)>>,
       <<"result", JStr(result)>> >>))

\* ------------------------------------------------------------ tool 8: json

IsStringToken(t) == t \in {"\"k\"", "\"j\""}
StringContent(t) == IF t = "\"k\"" THEN "k" ELSE "j"

RECURSIVE TextLength(_)
TextLength(data) ==
  LET
      \* The number of code units of a token
      TokenLength(t) ==
        CASE IsStringToken(t) -> 3
          [] t \in {"null", "true"} -> 4
          [] OTHER -> 1
  IN
                      IF data = <<>> THEN 0 ELSE TokenLength(Head(data)) + TextLength(Tail(data))

RECURSIVE SkipBlanks(_)
SkipBlanks(ts) == IF ts # <<>> /\ Head(ts) = " " THEN SkipBlanks(Tail(ts)) ELSE ts

ParseFail == [ok |-> FALSE, v |-> JUndefined, rest |-> <<>>]
ParseOk(v, rest) == [ok |-> TRUE, v |-> v, rest |-> rest]

RECURSIVE ParseValue(_), ParseMembers(_, _), ParseElements(_, _)
ParseValue(ts0) ==
  LET
      IsScalarToken(t) == IsStringToken(t) \/ t \in {"1", "null", "true"}
      ScalarValue(t) ==
        CASE t = "1" -> JNum(1)
          [] t = "null" -> JNull
          [] t = "true" -> JBool(TRUE)
          [] OTHER -> JStr(<<StringContent(t)>>)
  IN
    LET ts == SkipBlanks(ts0) IN
    IF ts = <<>> THEN ParseFail
    ELSE IF Head(ts) = "{"
    THEN LET r == SkipBlanks(Tail(ts)) IN
         IF r # <<>> /\ Head(r) = "}" THEN ParseOk(JObj(<<>>), Tail(r))
         ELSE ParseMembers(r, <<>>)
    ELSE IF Head(ts) = "["
    THEN LET r == SkipBlanks(Tail(ts)) IN
         IF r # <<>> /\ Head(r) = "]" THEN ParseOk(JArr(<<>>), Tail(r))
         ELSE ParseElements(r, <<>>)
    ELSE IF IsScalarToken(Head(ts)) THEN ParseOk(ScalarValue(Head(ts)), Tail(ts))
    ELSE ParseFail

ParseMembers(ts0, props) ==
  LET
      \* obj[key] = v while parsing: a repeated key keeps its place and takes the
      \* later value.
      PutProperty(ps, key, v) ==
        IF \E i \in 1..Len(ps) : ps[i][1] = key
        THEN [i \in 1..Len(ps) |-> IF ps[i][1] = key THEN <<key, v>> ELSE ps[i]]
        ELSE Append(ps, <<key, v>>)
  IN
    LET ts == SkipBlanks(ts0) IN
    IF ts = <<>> \/ ~IsStringToken(Head(ts)) THEN ParseFail
    ELSE LET r1 == SkipBlanks(Tail(ts)) IN
         IF r1 = <<>> \/ Head(r1) # ":" THEN ParseFail
         ELSE LET pv == ParseValue(Tail(r1)) IN
              IF ~pv.ok THEN ParseFail
              ELSE LET props2 == PutProperty(props, StringContent(Head(ts)), pv.v)
                       r2 == SkipBlanks(pv.rest)
                   IN IF r2 = <<>> THEN ParseFail
                      ELSE IF Head(r2) = "}" THEN ParseOk(JObj(props2), Tail(r2))
                      ELSE IF Head(r2) = "," THEN ParseMembers(Tail(r2), props2)
                      ELSE ParseFail

ParseElements(ts0, items) ==
  LET pv == ParseValue(ts0) IN
  IF ~pv.ok THEN ParseFail
  ELSE LET items2 == Append(items, pv.v)
           r2 == SkipBlanks(pv.rest)
       IN IF r2 = <<>> THEN ParseFail
          ELSE IF Head(r2) = "]" THEN ParseOk(JArr(items2), Tail(r2))
          ELSE IF Head(r2) = "," THEN ParseElements(Tail(r2), items2)
          ELSE ParseFail

\* JSON.parse(data): the value, or a SyntaxError (ok = FALSE).
JSONparse(data) ==
  LET pv == ParseValue(data) IN
  IF pv.ok /\ SkipBlanks(pv.rest) = <<>> THEN pv ELSE ParseFail

\* typeof val
typeOf(val) == IF val.t \in {"object", "array", "null"} THEN "object" ELSE val.t

IsPlainObject(val) == val.t = "object"

\* JSON.stringify(parsed, null, indent), a string: kept by the value and the
\* indentation it is written with.
JText(parsed, indent) == [t |-> "JSON.stringify", s |-> <<>>, n |-> indent, o |-> <<parsed>>]

\* JSON.stringify(parsed).length
RECURSIVE MinifiedLength(_), MembersLength(_, _)
MinifiedLength(val) ==
  CASE val.t = "object" ->
         2 + MembersLength(val.o, TRUE) + (IF Len(val.o) > 0 THEN Len(val.o) - 1 ELSE 0)
    [] val.t = "array" ->
         2 + MembersLength(val.o, FALSE) + (IF Len(val.o) > 0 THEN Len(val.o) - 1 ELSE 0)
    [] val.t = "string" -> Len(val.s) + 2
    [] val.t = "number" -> 1
    [] OTHER -> 4
MembersLength(ms, keyed) ==
  IF ms = <<>> THEN 0
  ELSE (IF keyed THEN 4 + MinifiedLength(Head(ms)[2]) ELSE MinifiedLength(Head(ms)))
       + MembersLength(Tail(ms), keyed)

\* getAllKeys(obj, prefix), from the i-th enumerable property on
RECURSIVE getAllKeysFrom(_, _, _)
getAllKeysFrom(obj, prefix, i) ==
  LET
      \* The names a for...in loop visits, with their values: the keys of an object,
      \* the indices of an array.
      Enumerable(val) ==
        IF val.t = "array"
        THEN [k \in 1..Len(val.o) |-> <<IntDigits(k - 1), val.o[k]>>]
        ELSE IF val.t = "object"
        THEN [k \in 1..Len(val.o) |-> << <<val.o[k][1]>>, val.o[k][2]>>]
        ELSE <<>>
  IN
    LET props == Enumerable(obj) IN
    IF i > Len(props) THEN <<>>
    ELSE LET key == props[i][1]
             fullKey == IF prefix # <<>> THEN prefix \o <<".">> \o key ELSE key
         IN <<JStr(fullKey)>>
            \o (IF IsPlainObject(props[i][2])
                THEN getAllKeysFrom(props[i][2], fullKey, 1) ELSE <<>>)
            \o getAllKeysFrom(obj, prefix, i + 1)

getAllKeys(obj) == getAllKeysFrom(obj, <<>>, 1)

\* getType(val)
getType(val) ==
  IF val.t = "null" THEN "null" ELSE IF val.t = "array" THEN "array" ELSE typeOf(val)

\* The switch on operation of the json handler: the result object.
jsonResult(operation, parsed, data, indent) ==
  CASE operation = "validate" ->
         << <<"valid", JBool(TRUE)>>,
            <<"type", JStr(<<IF parsed.t = "array" THEN "array" ELSE typeOf(parsed)>>)>>,
            <<"size_bytes", JNum(TextLength(data))>>,
            <<"keys", IF IsPlainObject(parsed)
                      THEN JArr([i \in 1..Len(parsed.o) |-> JStr(<<parsed.o[i][1]>>)])
                      ELSE JUndefined>>,
            <<"array_length",
              IF parsed.t = "array" THEN JNum(Len(parsed.o)) ELSE JUndefined>> >>
    [] operation = "format" ->
         << <<"valid", JBool(TRUE)>>,
            <<"formatted", JText(parsed, indent)>> >>
    [] operation = "minify" ->
         << <<"valid", JBool(TRUE)>>,
            <<"minified", JText(parsed, 0)>>,
            <<"original_size", JNum(TextLength(data))>>,
            <<"minified_size", JNum(MinifiedLength(parsed))>>,
            <<"compression_ratio", toFixed2(MinifiedLength(parsed), TextLength(data))>> >>
    [] operation = "get_keys" ->
         << <<"valid", JBool(TRUE)>>,
            <<"keys", IF typeOf(parsed) = "object" /\ parsed.t # "null"
                      THEN JArr(getAllKeys(parsed)) ELSE JArr(<<>>)>> >>
    [] operation = "get_type" ->
         << <<"valid", JBool(TRUE)>>,
            <<"root_type", JStr(<<getType(parsed)>>)>>,
            <<"types", IF IsPlainObject(parsed)
                       THEN JObj([i \in 1..Len(parsed.o) |->
                                    <<parsed.o[i][1], JStr(<<getType(parsed.o[i][2])>>)>>])
                       ELSE JUndefined>> >>
    [] OTHER -> << <<"valid", JBool(TRUE)>> >>

\* A parse failure reported without the error flag.
jsonParseFailure_Unflagged(data) ==
  [kind |-> "returned", isError |-> FALSE, lit |-> <<>>,
   json |-> Stringify(JObj(<< <<"valid", JBool(FALSE)>>,
                              <<"error", JLib("SyntaxError.message", data, 0)>> >>)),
   message |-> <<>>, ran |-> "json"]

\* The envelope of the json handler when JSON.parse throws: the text is the
\* JSON of {valid: false, error: e.message} and isError is true.
jsonParseFailure(data) ==
  [kind |-> "returned", isError |-> TRUE, lit |-> <<>>,
   json |-> Stringify(JObj(<< <<"valid", JBool(FALSE)>>,
                              <<"error", JLib("SyntaxError.message", data, 0)>> >>)),
   message |-> <<>>, ran |-> "json"]

\* A json handler whose get_type branch is entered without a parsed value.
jsonHandler_TypeOfUnparsed(args) ==
  LET operation == Keyword(args["operation"], "validate")
      data == args["data"].s
      indent == IF args["indent"].t = "absent" THEN 2 ELSE args["indent"].n
      parsed == JSONparse(data)
  IN IF ~parsed.ok /\ operation = "get_type"
     THEN Success("json", JObj(<< <<"type", JStr(<<"undefined">>)>> >>))
     ELSE IF ~parsed.ok
     THEN jsonParseFailure(data)
     ELSE Success("json", JObj(jsonResult(operation, parsed.v, data, indent)))

jsonHandler(args) ==
  LET operation == Keyword(args["operation"], "validate")
      data == args["data"].s
      indent == IF args["indent"].t = "absent" THEN 2 ELSE args["indent"].n
      parsed == JSONparse(data)
  IN IF ~parsed.ok
     THEN jsonParseFailure(data)
     ELSE Success("json", JObj(jsonResult(operation, parsed.v, data, indent)))

\* ---------------------------------------------------------- tool 9: random
\* The number num/den in lowest terms (den > 0); whole numbers as JNum.
Ratio(num, den) ==
  LET Abs(x) == IF x < 0 THEN 0 - x ELSE x
      Gcd[a \in Nat, b \in Nat] == IF b = 0 THEN a ELSE Gcd[b, a % b]
      g == Gcd[Abs(num), den]
  IN IF den \div g = 1
     THEN JNum(num \div g)
     ELSE [t |-> "number", s |-> <<"/">> \o IntDigits(den \div g), n |-> num \div g,
           o |-> <<>>]

\* Math.random() is Draw / RandomSteps; min and max are taken in halves, and
\* the arithmetic is exact (no floating-point rounding).
randomHandler(args, rand) ==
  LET type == Keyword(args["type"], "integer")
      min2 == IF args["min"].t = "absent" THEN 0 ELSE Twice(args["min"])
      max2 == IF args["max"].t = "absent" THEN 200 ELSE Twice(args["max"])
      length == IF args["length"].t = "absent" THEN 16 ELSE args["length"].n
      count == IF args["count"].t = "absent" THEN 1 ELSE args["count"].n
      hexChars == DigitChars \o <<"a", "b", "c", "d", "e", "f">>
      \* "ABC...XYZabc...xyz0123456789", and the same followed by "!@#$%^&*"
      alphanumericChars == SubSeq(Base64Alphabet, 1, 62)
      allChars == alphanumericChars \o <<"!", "@", "#", "$", "%", "^", "&", "*">>
      \* Math.floor(Math.random() * n) for a whole n
      Pick(k, n) == (k * n) \div RandomSteps
      \* Array.from({ length }, () => chars.charAt(...)).join("")
      Chars(chars, first) ==
        JStr([j \in 1..length |-> chars[Pick(Draw(rand, first + j - 1), Len(chars)) + 1]])
      \* The i-th call of generate(), given the draws already consumed.
      generate(i) ==
        CASE type = "integer" ->
               Ratio(2 * ((Draw(rand, i) * (max2 - min2 + 2)) \div (2 * RandomSteps)) + min2, 2)
          [] type = "float" ->
               Ratio(Draw(rand, i) * (max2 - min2) + min2 * RandomSteps, 2 * RandomSteps)
          [] type = "boolean" -> JBool(2 * Draw(rand, i) < RandomSteps)
          [] type = "hex" -> Chars(hexChars, (i - 1) * length + 1)
          [] type = "alphanumeric" -> Chars(alphanumericChars, (i - 1) * length + 1)
          [] type = "string" -> Chars(allChars, (i - 1) * length + 1)
          [] OTHER -> JNull
      results == [i \in 1..count |-> generate(i)]
  IN Success("random", JObj(<<
       <<"type", JStr(<<type>>)>>,
       <<"count", JNum(Len(results))>>,
       <<"values", IF count = 1 THEN results[1] ELSE JArr(results)>> >>))

\* ----------------------------------------------------------- tool 10: info
\* A catalog written before the last tool was added.
toolCatalog_WithoutInfo ==
  << <<"echo", "Enhanced echo with metadata and transformations">>,
     <<"format", "Text formatting utilities">>,
     <<"analyze", "Text analysis and statistics">>,
     <<"hash", "Cryptographic hashing (MD5, SHA256, etc.)">>,
     <<"uuid", "UUID generation">>,
     <<"timestamp", "Timestamp utilities">>,
     <<"base64", "Base64 encoding/decoding">>,
     <<"json", "JSON validation and formatting">>,
     <<"random", "Random data generator">> >>

\* The literal list of { name, description } the full answer carries.
toolCatalog ==
  << <<"echo", "Enhanced echo with metadata and transformations">>,
     <<"format", "Text formatting utilities">>,
     <<"analyze", "Text analysis and statistics">>,
     <<"hash", "Cryptographic hashing (MD5, SHA256, etc.)">>,
     <<"uuid", "UUID generation">>,
     <<"timestamp", "Timestamp utilities">>,
     <<"base64", "Base64 encoding/decoding">>,
     <<"json", "JSON validation and formatting">>,
     <<"random", "Random data generator">>,
     <<"info", "Server information">> >>

\* process.version and process.platform are fixed for the life of the process;
\* process.uptime() and process.memoryUsage() are read at the time of the call.
infoHandler(args, clock) ==
  LET detail == Keyword(args["detail"], "basic")
      basic == << <<"name", JStr(<<"mcp-echo-tool-enhanced">>)>>,
                  <<"version", JStr(<<"2.0.0">>)>>,
                  <<"description", JStr(<<"Enhanced MCP server with 10+ utility tools">>)>>,
                  <<"node_version", JLib("process.version", <<>>, 0)>>,
                  <<"platform", JLib("process.platform", <<>>, 0)>> >>
  IN IF detail = "full"
     THEN Success("info", JObj(basic \o <<
            <<"tools", JArr([i \in 1..Len(toolCatalog) |->
                              JObj(<< <<"name", JStr(<<toolCatalog[i][1]>>)>>,
                                      <<"description", JStr(<<toolCatalog[i][2]>>)>> >>)])>>,
            <<"capabilities", JObj(<< <<"tools", JBool(TRUE)>>,
                                      <<"resources", JBool(FALSE)>>,
                                      <<"prompts", JBool(FALSE)>> >>)>>,
            <<"uptime_seconds", JLib("process.uptime()", <<>>, clock)>>,
            <<"memory_usage", JLib("process.memoryUsage()", <<>>, clock)>> >>))
     ELSE Success("info", JObj(basic))

\* ---------------------------------------------------------------- dispatch
handler(tool, args, clock, rand) ==
  CASE tool = "echo" -> echoHandler(args, clock)
    [] tool = "format" -> formatHandler(args)
    [] tool = "analyze" -> analyzeHandler(args)
    [] tool = "base64" -> base64Handler(args)
    [] tool = "hash" -> hashHandler(args)
    [] tool = "timestamp" -> timestampHandler(args, clock)
    [] tool = "json" -> jsonHandler(args)
    [] tool = "uuid" -> uuidHandler(args, rand)
    [] tool = "random" -> randomHandler(args, rand)
    [] tool = "info" -> infoHandler(args, clock)

\* A tools/call request on the enhanced server: lookup among the registered
\* tools, validation against the tool's inputSchema, then the handler.
CallTool(tools, name, args, clock, throws, rand) ==
  IF name \notin tools
  THEN SdkFailure(throws, <<"Tool ", name, " not found">>)
  ELSE LET v == validate(name, args) IN
       IF ~v.ok
       THEN SdkFailure(throws, <<"Invalid arguments for tool ", name, ": ", v.arg>>)
       ELSE handler(name, v.args, clock, rand)

\* ------------------------------------------------------------------ inputs
NoRequest == [name |-> "", args |-> <<>>]

\* Raw values a client may send as message.
RawMessages ==
  LET
      \* Code units the inputs are drawn from.  "<hi>" and "<lo>" are the two halves
      \* of a surrogate pair (one code point, two UTF-16 code units).
      EchoChars == {"a", "B", " ", "\n", "<hi>", "<lo>"}
      EchoMessages == StringsUpTo(EchoChars, MaxLen) \cup {HelloWorld, HelloWorldSpaced}
  IN
    {Str(m) : m \in EchoMessages} \cup {Absent, Null, Num(0), Num(42), Bool(TRUE), Bool(FALSE)}

\* What the random source may yield during one call.
Draws == StringsUpTo(0..(RandomSteps - 1), MaxDraws) \ {<<>>}
\* The source as seen by a handler that never reads it.
Unread == <<0>>

UuidArgs ==
  {[version |-> v, count |-> c, uppercase |-> u] :
     v \in {Absent, Word("v7"), Word("v1")},
     c \in {Absent, Null, Num(-1), Num(0), Num(1), Num(2), Half(3), Num(100), Num(101),
            Str(<<"2">>)},
     u \in {Absent, Bool(TRUE)}}

RandomArgs ==
  LET Bounds == {Absent, Num(-3), Num(0), Half(1), Num(5), Half(5), Num(10)}
      Numeric == {[type |-> t, min |-> lo, max |-> hi, count |-> c] :
                    t \in {Absent, Word("integer"), Word("float")},
                    lo \in Bounds, hi \in Bounds, c \in {Absent, Num(2)}}
      Textual == {[type |-> Word(t), length |-> l, count |-> c] :
                    t \in {"boolean", "hex", "alphanumeric", "string"},
                    l \in {Absent, Num(1), Num(2)}, c \in {Absent, Num(2)}}
      Refused == {[type |-> Word("uuid")], [min |-> Str(<<"0">>)], [length |-> Num(0)],
                  [length |-> Num(1001)], [length |-> Half(3)], [count |-> Num(0)],
                  [count |-> Num(101)]}
  IN Numeric \cup Textual \cup Refused

InfoArgs ==
  {<<>>} \cup {[detail |-> d] : d \in {Word("basic"), Word("full"), Word("verbose"), Null}}

\* Requests sent while others are in flight: two that read neither the clock
\* nor the random source, one of each that does, and a name not registered.
ConcurrentRequests ==
  { [name |-> "format", args |-> [text |-> Str(HelloWorld), operation |-> Word("uppercase")]],
    [name |-> "hash", args |-> [data |-> Str(<<"a">>)]],
    [name |-> "echo", args |-> [message |-> Str(HelloWorld)]],
    [name |-> "random", args |-> [type |-> Word("boolean")]],
    [name |-> "unknown_tool", args |-> <<>>] }

\* Names no build registers.
UnknownNames == {"unknown_tool", "Echo"}
UnknownArgs == {<<>>, [message |-> Str(HelloWorld)], [message |-> Null]}

\* "format" is registered by the enhanced server only.
LegacyRequests ==
  {[name |-> "echo", args |-> a] : a \in {<<>>} \cup {[message |-> v] : v \in RawMessages}}
  \cup {[name |-> n, args |-> a] : n \in UnknownNames \cup {"format"}, a \in UnknownArgs}

EchoArgs ==
  LET
      \* Messages on which every transform and the hash option are tried.
      SampleMessages ==
        {HelloWorld, HelloWorldSpaced, <<"a", " ", "B">>, <<"B", "a">>, <<" ", "a">>,
         <<"a", "<hi>", "<lo>">>}
  IN
    {[message |-> v, transform |-> Absent, includeHash |-> Absent] : v \in RawMessages}
    \cup {[message |-> Str(m), transform |-> t, includeHash |-> h] :
            m \in SampleMessages,
            t \in {Word(w) : w \in EchoTransforms} \cup {Word("reverse"), Null},
            h \in {Absent, Bool(TRUE), Bool(FALSE), Word("yes")}}

FormatArgs ==
  LET
      FormatChars == {"a", "B", " ", "-", ".", "!"}
      FormatTexts ==
        StringsUpTo(FormatChars, MaxLen)
        \cup {HelloWorld, HelloWorldSpaced, <<"a", ".", " ", " ", "b">>, <<"a", " ", "-", " ", "B", "-">>,
              <<"a", "<hi>", "<lo>">>}
  IN
    {[text |-> Str(t), operation |-> Word(o)] :
       t \in FormatTexts, o \in FormatOperations \cup {"snake_case"}}
    \cup {[text |-> v, operation |-> o] :
            v \in {Absent, Null, Num(42), Str(<<"a">>)}, o \in {Absent, Null, Word("trim")}}

AnalyzeArgs ==
  LET
      AnalyzeChars == {"a", "B", "1", " ", "\n", ".", "_", "<hi>"}
      AnalyzeTexts ==
        StringsUpTo(AnalyzeChars, MaxLen)
        \cup {HelloWorld, <<"a", ".", " ", "B", "!", "\n", "\n", "a", "?">>}
  IN
    {[text |-> Str(t), includeCharFrequency |-> f] :
       t \in AnalyzeTexts, f \in {Absent, Bool(TRUE)}}
    \cup {[text |-> v, includeCharFrequency |-> f] :
            v \in {Absent, Null, Num(42), Str(<<"a">>)}, f \in {Bool(FALSE), Null, Word("yes")}}

Base64Args ==
  LET
      \* Data for the base64 tool: text to encode, with and without surrogates;
      \* encoded text of both alphabets, with and without padding, and text that is
      \* no Base64 at all.
      Base64Chars == {"a", "B", "<hi>", "<lo>"}
      Base64Data ==
        StringsUpTo(Base64Chars, MaxLen)
        \cup StringsUpTo({"Y", "Q", "_", "/", "!"}, MaxLen - 1)
        \cup {<<"Y", "Q", "=", "=">>, <<"Y", "U", "I", "=">>, <<"!", "!", "!", "!">>,
              <<"8", "J", "+", "Y", "g", "A", "=", "=">>, <<"8", "J", "-", "Y", "g", "A">>,
              <<"Y", " ", "Q">>, HelloWorld}
  IN
    {[operation |-> Word(o), data |-> Str(d), urlSafe |-> u] :
       o \in Base64Operations, d \in Base64Data, u \in {Absent, Bool(TRUE), Bool(FALSE)}}
    \cup {[operation |-> o, data |-> d, urlSafe |-> u] :
            o \in {Absent, Word("encrypt"), Word("decode")},
            d \in {Absent, Null, Str(<<"Y", "Q">>)},
            u \in {Absent, Null}}

HashArgs ==
  LET
      HashData == {<<>>, <<"a">>, <<"a", "B">>, HelloWorld}
  IN
    {[data |-> d, algorithm |-> a, encoding |-> e] :
       d \in {Str(x) : x \in HashData} \cup {Absent, Null, Num(42)},
       a \in {Word(w) : w \in HashAlgorithms} \cup {Absent, Null, Word("crc32"), Word("SHA256")},
       e \in {Word(w) : w \in HashEncodings} \cup {Absent, Word("binary")}}

TimestampArgs ==
  LET
      \* Values for the timestamp tool: digit strings around the seconds limit and
      \* the largest time value, the ISO sample, and text that is no date.
      TimestampValues ==
        {<<>>, <<"0">>, <<"1">>, <<"0", "1", "0">>,
         <<"1", "7", "0", "0", "0", "0", "0", "0", "0", "0">>, <<"1", "7", "0", "0", "0", "0", "0", "0", "0", "0", "0", "0", "0">>,
         <<"9", "9", "9", "9", "9", "9", "9", "9", "9", "9">>, SecondsLimit,
         <<"8", "6", "4", "0", "0", "0", "0", "0", "0", "0", "0", "0", "0">>, <<"8", "6", "4", "0", "0", "0", "0", "0", "0", "0", "0", "0", "1">>,
         MaxTimeValue, <<"8", "6", "4", "0", "0", "0", "0", "0", "0", "0", "0", "0", "0", "0", "0", "1">>,
         IsoSample, <<"a", "b", "c">>, <<"x">>}
  IN
    {[operation |-> o, value |-> v, format |-> f, addMs |-> a] :
       o \in {Word(w) : w \in TimestampOperations} \cup {Absent, Word("subtract")},
       v \in {Str(x) : x \in TimestampValues} \cup {Absent, Num(5)},
       f \in {Word(w) : w \in TimestampFormats} \cup {Absent, Word("rfc")},
       a \in {Absent, Num(0), Num(1), Num(1000), Word("1")}}

\* JSON texts: every token string up to MaxJsonLen, and some longer ones:
\* {"k":{"j":1,"k":[1]},"j":null}   [{"k":1},[1],true]   {"k":1,"k":null}
\* {"k":1,}   { "k" : [ ] }   [1 1]
JsonSamples ==
  { <<"{", "\"k\"", ":", "{", "\"j\"", ":", "1", ",", "\"k\"", ":", "[", "1", "]", "}", ",",
      "\"j\"", ":", "null", "}">>,
    <<"[", "{", "\"k\"", ":", "1", "}", ",", "[", "1", "]", ",", "true", "]">>,
    <<"{", "\"k\"", ":", "1", ",", "\"k\"", ":", "null", "}">>,
    <<"{", "\"k\"", ":", "1", ",", "}">>,
    <<"{", " ", "\"k\"", " ", ":", " ", "[", " ", "]", " ", "}">>,
    <<"{", "\"k\"", ":", "1", "}">>,
    <<"[", "1", " ", "1", "]">> }

JsonArgs ==
  LET
      JsonTokens ==
        LET
            \* A JSON text is a string of lexical tokens: punctuation, the string literals
            \* "k" and "j", the literals 1, null and true, a blank, and x, which is no
            \* JSON token.
            JsonPunctuation == {"{", "}", "[", "]", ":", ","}
        IN
                      JsonPunctuation \cup {"\"k\"", "\"j\"", "1", "null", "true", " ", "x"}
      JsonData == StringsUpTo(JsonTokens, MaxJsonLen) \cup JsonSamples
  IN
    {[operation |-> o, data |-> Str(d), indent |-> Absent] :
       o \in {Word(w) : w \in JsonOperations} \cup {Absent}, d \in JsonData}
    \cup {[operation |-> o, data |-> d, indent |-> i] :
            o \in {Word("format"), Word("keys"), Null},
            d \in {Str(x) : x \in JsonSamples} \cup {Absent, Null},
            i \in {Absent, Num(0), Num(8), Num(9), Word("2")}}

\* ------------------------------------------------------------ state machine
Failed(o) == o.kind = "thrown" \/ o.isError

\* A slot no invocation occupies.
NoInvocation == [stage |-> "idle", req |-> NoRequest, out |-> NoOutcome, sent |-> 0]

Init ==
  /\ build \in {"legacy", "enhanced"}
  /\ sdkThrows \in (IF build = "legacy" THEN {TRUE} ELSE BOOLEAN)
  /\ registry = ToolNames(build)
  /\ now = 0
  /\ prev = "none"
  /\ req = NoRequest
  /\ out = NoOutcome
  /\ listed = <<>>
  /\ inflight = [i \in 1..MaxInFlight |-> NoInvocation]

\* The wall clock advances.
Tick ==
  /\ now < MaxClock
  /\ now' = now + 1
  /\ UNCHANGED <<build, sdkThrows, registry, prev, req, out, listed, inflight>>

\* The server reads the next message only after it has answered the last one.
Idle == req = NoRequest

\* A tools/call request served by the legacy server.
LegacyCall ==
  /\ build = "legacy"
  /\ Idle
  /\ \E r \in LegacyRequests :
       /\ req' = r
       /\ out' = LegacyCallTool(r.name, r.args, now)
  /\ UNCHANGED <<build, sdkThrows, registry, now, prev, listed, inflight>>

\* A tools/call request served by the enhanced server.
Drawn(name, args, rand) ==
  /\ req' = [name |-> name, args |-> args]
  /\ out' = CallTool(registry, name, args, now, sdkThrows, rand)
  /\ UNCHANGED <<build, sdkThrows, registry, now, prev, listed, inflight>>

\* A call of a tool whose handler does not read the random source.
Serve(name, args) == Drawn(name, args, Unread)

CallEcho ==
  /\ build = "enhanced" /\ Idle
  /\ \E args \in EchoArgs : Serve("echo", args)

CallFormat ==
  /\ build = "enhanced" /\ Idle
  /\ \E args \in FormatArgs : Serve("format", args)

CallAnalyze ==
  /\ build = "enhanced" /\ Idle
  /\ \E args \in AnalyzeArgs : Serve("analyze", args)

CallBase64 ==
  /\ build = "enhanced" /\ Idle
  /\ \E args \in Base64Args : Serve("base64", args)

CallHash ==
  /\ build = "enhanced" /\ Idle
  /\ \E args \in HashArgs : Serve("hash", args)

CallTimestamp ==
  /\ build = "enhanced" /\ Idle
  /\ \E args \in TimestampArgs : Serve("timestamp", args)

CallJson ==
  /\ build = "enhanced" /\ Idle
  /\ \E args \in JsonArgs : Serve("json", args)

CallUuid ==
  /\ build = "enhanced" /\ Idle
  /\ \E args \in UuidArgs, rand \in Draws : Drawn("uuid", args, rand)

CallRandom ==
  /\ build = "enhanced" /\ Idle
  /\ \E args \in RandomArgs, rand \in Draws : Drawn("random", args, rand)

CallInfo ==
  /\ build = "enhanced" /\ Idle
  /\ \E args \in InfoArgs : Serve("info", args)

\* A tools/list request, answered at once; either server takes it.
ListTools ==
  /\ Idle
  /\ listed' = Listing(build)
  /\ UNCHANGED <<build, sdkThrows, registry, now, prev, req, out, inflight>>

CallUnknown ==
  /\ build = "enhanced" /\ Idle
  /\ \E name \in UnknownNames, args \in UnknownArgs : Serve(name, args)

\* The outcome goes to the transport and the request is discarded.
Respond ==
  LET
      \* How the call before the current one ended.
      Ending(o) == IF o.kind = "none" THEN "none" ELSE IF Failed(o) THEN "failed" ELSE "ok"
  IN
    /\ ~Idle
    /\ prev' = Ending(out)
    /\ req' = NoRequest
    /\ out' = NoOutcome
    /\ UNCHANGED <<build, sdkThrows, registry, now, listed, inflight>>

\* ------------------------------------------------- invocations in flight
\* The transport reads a tools/call message while others are still being
\* served; its handler is scheduled.
Receive ==
  \E i \in 1..MaxInFlight, r \in ConcurrentRequests :
    /\ inflight[i].stage = "idle"
    /\ inflight' = [inflight EXCEPT ![i] = [stage |-> "received", req |-> r,
                                             out |-> NoOutcome, sent |-> 0]]
    /\ UNCHANGED <<build, sdkThrows, registry, now, prev, req, out, listed>>

\* A handler that takes its request from a variable shared by the invocations
\* (the request read last).
Handle_SharedRequest ==
  \E i \in 1..MaxInFlight :
    \E rand \in (IF inflight[i].req.name \in {"uuid", "random"} THEN Draws ELSE {Unread}) :
    /\ inflight[i].stage = "received"
    /\ LET last == CHOOSE j \in 1..MaxInFlight :
                     /\ inflight[j].stage = "received"
                     /\ \A k \in 1..MaxInFlight : inflight[k].stage = "received" => k <= j
           r == inflight[last].req
       IN inflight' = [inflight EXCEPT
            ![i].stage = "handled",
            ![i].out = IF build = "legacy"
                       THEN LegacyCallTool(r.name, r.args, now)
                       ELSE CallTool(registry, r.name, r.args, now, sdkThrows, rand)]
    /\ UNCHANGED <<build, sdkThrows, registry, now, prev, req, out, listed>>

\* The handler of one invocation runs.  It holds no await, so it runs from its
\* first statement to its return with no other handler in between; it reads
\* its own arguments, the clock and (uuid, random) the random source.
Handle ==
  \E i \in 1..MaxInFlight :
    \E rand \in (IF inflight[i].req.name \in {"uuid", "random"} THEN Draws ELSE {Unread}) :
    /\ inflight[i].stage = "received"
    /\ LET r == inflight[i].req
       IN inflight' = [inflight EXCEPT
            ![i].stage = "handled",
            ![i].out = IF build = "legacy"
                       THEN LegacyCallTool(r.name, r.args, now)
                       ELSE CallTool(registry, r.name, r.args, now, sdkThrows, rand)]
    /\ UNCHANGED <<build, sdkThrows, registry, now, prev, req, out, listed>>

\* The outcome of a handled invocation is written to the transport.
SendResponse ==
  \E i \in 1..MaxInFlight :
    /\ inflight[i].stage = "handled"
    /\ inflight' = [inflight EXCEPT ![i].stage = "responded", ![i].sent = @ + 1]
    /\ UNCHANGED <<build, sdkThrows, registry, now, prev, req, out, listed>>

NextConcurrent ==
  \/ Tick
  \/ Receive
  \/ Handle
  \/ SendResponse

NextLegacy ==
  \/ Tick
  \/ LegacyCall
  \/ ListTools
  \/ Respond

NextEnhanced ==
  \/ Tick
  \/ CallEcho
  \/ CallFormat
  \/ CallAnalyze
  \/ CallBase64
  \/ CallHash
  \/ CallTimestamp
  \/ CallJson
  \/ ListTools
  \/ CallUuid
  \/ CallRandom
  \/ CallInfo
  \/ CallUnknown
  \/ Respond

Next ==
  \/ Tick
  \/ LegacyCall
  \/ CallEcho
  \/ CallFormat
  \/ CallAnalyze
  \/ CallBase64
  \/ CallHash
  \/ CallTimestamp
  \/ CallJson
  \/ ListTools
  \/ CallUuid
  \/ CallRandom
  \/ CallInfo
  \/ CallUnknown
  \/ Respond

\* Either server
Spec == Init /\ [][Next]_vars
\* The legacy server alone
InitLegacy == Init /\ build = "legacy"
SpecLegacy == InitLegacy /\ [][NextLegacy]_vars
\* Either server, with several invocations in flight
SpecConcurrent == Init /\ [][NextConcurrent]_vars
\* The same, every scheduled handler and every pending response being run:
\* weak fairness of Handle and of SendResponse.  Handle is enabled exactly
\* when an invocation waits for its handler, and a Handle step is one that
\* takes such an invocation to "handled"; the fairness of Handle is written
\* with these two.
Waiting == \E i \in 1..MaxInFlight : inflight[i].stage = "received"
Handling ==
  \E i \in 1..MaxInFlight : inflight[i].stage = "received" /\ inflight'[i].stage = "handled"
SpecConcurrentFair ==
  SpecConcurrent /\ (<>[]Waiting => []<><<Handling>>_vars) /\ WF_vars(SendResponse)
\* The enhanced server alone
InitEnhanced == Init /\ build = "enhanced"
SpecEnhanced == InitEnhanced /\ [][NextEnhanced]_vars

\* ------------------------------------------------------------------ claims
\* A call has been served and its outcome is about to go to the transport.
Called == req # NoRequest
Message == Arg(req.args, "message")
\* The text a failure carries: the thrown Error's message, or the envelope's text.
FailureText == IF out.kind = "thrown" THEN out.message ELSE out.lit
Mentions(text, fragment) == \E i \in 1..Len(text) : text[i] = fragment
StartsWith(text, fragment) == Len(text) > 0 /\ text[1] = fragment
EchoSucceeded == Called /\ req.name = "echo" /\ out.kind = "returned" /\ ~out.isError
\* Where a build reports word_count and char_count
Stats == IF build = "legacy" THEN out.json ELSE Get(out.json, "stats")

C2_ErrorTextOrJson ==
  Called /\ out.kind = "returned" /\ out.ran # "" =>
    IF out.isError
    THEN StartsWith(out.lit, "Error: ") /\ out.json = NoJson
    ELSE out.lit = <<>> /\ out.json.t = "object"

\* C2, amended: as stated, except that the json handler answers unparseable
\* data with an error-flagged envelope whose text is the JSON of
\* {valid: false, error}; no success envelope reports valid: false.
C2_ErrorTextOrJsonOrInvalidJson ==
  Called /\ out.kind = "returned" /\ out.ran # "" =>
    IF out.isError
    THEN \/ StartsWith(out.lit, "Error: ") /\ out.json = NoJson
         \/ /\ out.ran = "json"
            /\ out.lit = <<>>
            /\ Get(out.json, "valid") = JBool(FALSE)
            /\ ~JSONparse(Arg(req.args, "data").s).ok
    ELSE /\ out.lit = <<>>
         /\ out.json.t = "object"
         /\ Get(out.json, "valid") # JBool(FALSE)

\* The json handler answered unparseable data.
C2_Witness ==
  /\ Called /\ out.ran = "json" /\ out.kind = "returned" /\ out.isError
  /\ Get(out.json, "valid") = JBool(FALSE)

DeclaredValid(args) ==
  IF build = "legacy"
  THEN \A i \in 1..Len(legacyInputSchema) :
         Arg(args, legacyInputSchema[i].name).t = legacyInputSchema[i].kind
  ELSE \A i \in 1..Len(inputSchema(req.name)) : ArgValid(inputSchema(req.name)[i], args)

\* C4, as stated: whenever a handler body runs, every required argument is
\* present and type-valid and every enumeration argument holds an allowed
\* value.
C4_HandlerRunsOnValidArguments ==
  Called /\ out.ran # "" => DeclaredValid(req.args)

\* Tools that read neither the clock nor a random source
ClockFree(r) ==
  \/ r.name \in {"format", "analyze", "hash", "base64", "json"}
  \/ r.name = "timestamp" /\ Arg(r.args, "operation") \in {Word("convert"), Word("add")}

\* The outcome of a request made first on a fresh server.
FreshOutcome(r) == CallTool(ToolNames("enhanced"), r.name, r.args, 0, sdkThrows, Unread)

C6_MissingMessageRejected ==
  Called /\ req.name = "echo" /\ Message.t \in {"absent", "null"} =>
    Failed(out) /\ Mentions(FailureText, "Message parameter is required")

\* C7, as stated: echo with the empty string succeeds with original "",
\* reversed "", word_count 0 and char_count 0.
C7_EmptyMessageEchoed ==
  Called /\ req.name = "echo" /\ Message = Str(<<>>) =>
    /\ out.kind = "returned" /\ ~out.isError
    /\ Get(out.json, "original") = JStr(<<>>)
    /\ Get(out.json, "reversed") = JStr(<<>>)
    /\ Get(Stats, "word_count") = JNum(0)
    /\ Get(Stats, "char_count") = JNum(0)

\* C8, as stated: the object of a successful echo carries original, reversed,
\* word_count, char_count and an ISO timestamp as top-level fields.
C8_TopLevelFields ==
  EchoSucceeded =>
    /\ \A k \in {"original", "reversed", "word_count", "char_count", "timestamp"} :
         HasKey(out.json, k)
    /\ Get(out.json, "timestamp").t = "toISOString"

\* The number of maximal runs of non-whitespace units of m
TokenCount(m) ==
  Cardinality({i \in 1..Len(m) : ~IsSpace(m[i]) /\ (i = 1 \/ IsSpace(m[i - 1]))})

\* C9: the word count echo reports is the number of non-empty
\* whitespace-delimited tokens of the message, 0 when the message is only
\* whitespace.
C9_WordCountIsTokenCount ==
  EchoSucceeded =>
    /\ Get(Stats, "word_count") = JNum(TokenCount(Message.s))
    /\ (\A i \in 1..Len(Message.s) : IsSpace(Message.s[i]))
         => Get(Stats, "word_count") = JNum(0)

\* '  Hello   World  ' was echoed with word count 2.
C9_Witness ==
  /\ EchoSucceeded /\ Message.s = HelloWorldSpaced
  /\ Get(Stats, "word_count") = JNum(2)

\* C10: the reversed field has the message's length, its unit i is unit
\* length + 1 - i of the message, and reversing it gives the message back.
C10_ReversalIsInvolution ==
  EchoSucceeded =>
    LET m == Message.s
        r == Get(out.json, "reversed")
    IN /\ r.t = "string"
       /\ Len(r.s) = Len(m)
       /\ \A i \in 1..Len(m) : r.s[i] = m[Len(m) + 1 - i]
       /\ reversed(r.s) = m

\* A message holding a surrogate pair was reversed unit by unit.
C10_Witness ==
  /\ EchoSucceeded /\ Message.s = <<"a", "<hi>", "<lo>">>
  /\ Get(out.json, "reversed") = JStr(<<"<lo>", "<hi>", "a">>)

\* A successful call to an enhanced tool, and its parsed arguments' text.
Succeeded(tool) ==
  Called /\ build = "enhanced" /\ out.ran = tool /\ out.kind = "returned" /\ ~out.isError
Operation == Arg(req.args, "operation")

\* C11, as stated: the result of format with operation slugify is lower case,
\* holds no whitespace and no two adjacent hyphens, and neither starts nor
\* ends with a hyphen.
C11_SlugWellFormed ==
  Succeeded("format") /\ Operation = Word("slugify") =>
    LET slug == Get(out.json, "result").s
    IN /\ \A i \in 1..Len(slug) : ~IsUpperAZ(slug[i]) /\ ~IsSpace(slug[i])
       /\ \A i \in 1..(Len(slug) - 1) : ~(slug[i] = "-" /\ slug[i + 1] = "-")
       /\ slug # <<>> => slug[1] # "-" /\ slug[Len(slug)] # "-"

\* Data that is no Base64 of the chosen alphabet: it holds a character that
\* is neither of that alphabet, nor padding, nor whitespace.
Malformed(data, urlSafe) ==
  LET alphabet == IF urlSafe THEN Base64UrlAlphabet ELSE Base64Alphabet
  IN \E i \in 1..Len(data) :
       ~Occurs(alphabet, data[i]) /\ data[i] # "=" /\ ~IsSpace(data[i])

\* C12, as stated: base64 decode of data that is malformed for the chosen
\* alphabet returns the error envelope 'Error: Invalid Base64 input' and
\* never a success result.
C12_MalformedRejected ==
  /\ Called /\ build = "enhanced" /\ out.ran = "base64"
  /\ Operation = Word("decode")
  /\ Malformed(Arg(req.args, "data").s, Flag(Arg(req.args, "urlSafe"), FALSE))
  => /\ out.kind = "returned" /\ out.isError
     /\ out.lit = <<"Error: ", "Invalid Base64 input">>

\* The result of decoding, with the same urlSafe, what an encode call returned.
DecodedBack ==
  Get(CallTool(registry, "base64",
               [operation |-> Word("decode"),
                data |-> Str(Get(out.json, "result").s),
                urlSafe |-> Arg(req.args, "urlSafe")],
               now, sdkThrows, Unread).json,
      "result")

\* C13, as stated: for every input x and both values of urlSafe, decoding the
\* result of encoding x with the same urlSafe returns x.
C13_RoundTrip ==
  Succeeded("base64") /\ Operation = Word("encode") =>
    DecodedBack = JStr(Arg(req.args, "data").s)

\* x holds no unpaired surrogate.
WellFormedUtf16(x) ==
  \A i \in 1..Len(x) :
    /\ x[i] = "<hi>" => i < Len(x) /\ x[i + 1] = "<lo>"
    /\ x[i] = "<lo>" => i > 1 /\ x[i - 1] = "<hi>"

\* The round trip does hold for every x that holds no unpaired surrogate.
C13_RoundTripWellFormed ==
  Succeeded("base64") /\ Operation = Word("encode")
  /\ WellFormedUtf16(Arg(req.args, "data").s)
  => DecodedBack = JStr(Arg(req.args, "data").s)

\* The names of the properties of a parsed object, in order.
Keys(obj) == [i \in 1..Len(obj.o) |-> obj.o[i][1]]

\* C14: for every json operation, data that is not parseable JSON gets an
\* error-flagged envelope whose body is {valid: false, error}, with no field
\* of the requested operation's branch, and nothing is thrown.
C14_UnparseableReportedInvalid ==
  Called /\ build = "enhanced" /\ out.ran = "json"
  /\ ~JSONparse(Arg(req.args, "data").s).ok
  => /\ out.kind = "returned" /\ out.isError
     /\ Keys(out.json) = <<"valid", "error">>
     /\ Get(out.json, "valid") = JBool(FALSE)

\* {"k":1,} was given to minify and reported invalid.
C14_Witness ==
  /\ Called /\ out.ran = "json" /\ Operation = Word("minify")
  /\ Arg(req.args, "data").s = <<"{", "\"k\"", ":", "1", ",", "}">>
  /\ out.isError /\ Get(out.json, "valid") = JBool(FALSE)

Values == Get(out.json, "values")
\* The values a random call generated, one or several.
Generated == IF Values.t = "array" THEN {Values.o[i] : i \in 1..Len(Values.o)} ELSE {Values}
\* The bounds in force, in halves: an omitted min is 0, an omitted max is 100.
Min2 == IF Arg(req.args, "min").t = "absent" THEN 0 ELSE Twice(Arg(req.args, "min"))
Max2 == IF Arg(req.args, "max").t = "absent" THEN 200 ELSE Twice(Arg(req.args, "max"))
IntegerRequested == Succeeded("random") /\ Arg(req.args, "type") \in {Absent, Word("integer")}

\* C15: every value of an accepted random call of type integer is an integer
\* v with min <= v <= max (min 0 and max 100 when omitted), and it is min
\* whenever min equals max.
C15_IntegerWithinBounds ==
  IntegerRequested =>
    \A v \in Generated :
      /\ v.t = "number" /\ v.s = <<>>
      /\ Min2 <= 2 * v.n /\ 2 * v.n <= Max2
      /\ (Min2 = Max2 => 2 * v.n = Min2)

\* Between whole bounds with min <= max the integers generated do stay within
\* them.
C15_WholeOrderedBounds ==
  /\ IntegerRequested
  /\ Arg(req.args, "min").s = <<>> /\ Arg(req.args, "max").s = <<>> /\ Min2 <= Max2
  => \A v \in Generated :
       /\ v.t = "number" /\ v.s = <<>>
       /\ Min2 <= 2 * v.n /\ 2 * v.n <= Max2

\* C16: a uuid call reaches the handler exactly when count is omitted or is an
\* integer from 1 to 100, and then returns that many identifiers (one when
\* omitted) and reports their number as count.
C16_CountAccepted ==
  /\ Called /\ build = "enhanced" /\ req.name = "uuid"
  /\ ArgValid(uuidSchema[1], req.args) /\ ArgValid(uuidSchema[3], req.args)
  => LET count == Arg(req.args, "count")
         inRange == count.t = "number" /\ count.s = <<>> /\ 1 <= count.n /\ count.n <= 100
         asked == IF count.t = "absent" THEN 1 ELSE count.n
     IN /\ out.ran = "uuid" <=> (count.t = "absent" \/ inRange)
        /\ out.ran = "uuid" =>
             /\ out.kind = "returned" /\ ~out.isError
             /\ Get(out.json, "uuids").t = "array"
             /\ Len(Get(out.json, "uuids").o) = asked
             /\ Get(out.json, "count") = JNum(asked)

C16_Witness ==
  /\ Succeeded("uuid") /\ Arg(req.args, "count") = Num(100)
  /\ Len(Get(out.json, "uuids").o) = 100

\* count = 101 and count = 0 never reach the handler.
C16_WitnessRefused ==
  Called /\ req.name = "uuid" /\ Arg(req.args, "count") = Num(101) /\ out.ran = ""

Value == Arg(req.args, "value")
\* A timestamp call of operation convert or add that reached the handler.
Converting ==
  /\ Called /\ build = "enhanced" /\ out.ran = "timestamp"
  /\ Operation \in {Word("convert"), Word("add")}
\* The value is a string that is no valid date: digits beyond the largest time
\* value, or text the Date parser does not recognise.
NoValidDate == Value.t = "string" /\ ~valueDate(Value.s).valid
InvalidDateReported ==
  /\ out.kind = "returned" /\ out.isError
  /\ out.lit = <<"Error: ", "Invalid date value">>
  /\ out.json = NoJson

\* C17: a convert or add call whose value denotes no valid date returns the
\* error envelope of 'Invalid date value' and no result object.
C17_InvalidDateReported == Converting /\ NoValidDate => InvalidDateReported

\* C17, amended: the same for a value that is not empty and, for add, with
\* addMs supplied; the empty value and the missing addMs are reported first.
C17_NonEmptyInvalidDateReported ==
  /\ Converting /\ NoValidDate /\ Value.s # <<>>
  /\ (Operation = Word("add") => Arg(req.args, "addMs").t # "absent")
  => InvalidDateReported

C17_Witness ==
  /\ Converting /\ Operation = Word("add") /\ Value = Str(<<"a", "b", "c">>)
  /\ Arg(req.args, "addMs") = Num(1)
  /\ InvalidDateReported

\* The instant a successful timestamp call reports, in milliseconds.
Instant == Get(Get(out.json, "all_formats"), "unix_ms").s
DigitsOnly == Value.t = "string" /\ Value.s # <<>> /\ \A i \in 1..Len(Value.s) : IsDigit(Value.s[i])
\* n * 1000 below 10,000,000,000 (at most ten significant digits), n otherwise.
UnixInstant ==
  LET n == Canon(Value.s)
  IN IF n = <<"0">> THEN n
     ELSE IF Len(n) <= 10 THEN n \o <<"0", "0", "0">> ELSE n
\* What convert answers for the value of the current request.
Converted ==
  CallTool(registry, "timestamp", [operation |-> Word("convert"), value |-> Value],
           now, sdkThrows, Unread)

\* C18: a value of digits only is read as seconds below 10,000,000,000 and as
\* milliseconds from there on, by convert and by add alike; add with addMs = 0
\* reports the instant convert reports.
C18_UnixTimestampRule ==
  /\ Succeeded("timestamp") /\ Operation \in {Word("convert"), Word("add")} /\ DigitsOnly
  => /\ Operation = Word("convert") => Instant = UnixInstant
     /\ Operation = Word("add") =>
          Instant = Canon(AddDigits(UnixInstant, Arg(req.args, "addMs").n))
     /\ Operation = Word("add") /\ Arg(req.args, "addMs") = Num(0) =>
          /\ ~Failed(Converted)
          /\ Instant = Get(Get(Converted.json, "all_formats"), "unix_ms").s

\* 10000000000 itself is read as milliseconds.
C18_Witness ==
  /\ Succeeded("timestamp") /\ Operation = Word("add") /\ Value = Str(SecondsLimit)
  /\ Arg(req.args, "addMs") = Num(0)
  /\ Instant = SecondsLimit

\* 9999999999 is read as seconds.
C18_WitnessSeconds ==
  /\ Succeeded("timestamp") /\ Operation = Word("convert")
  /\ Value = Str(<<"9", "9", "9", "9", "9", "9", "9", "9", "9", "9">>)
  /\ Instant = <<"9", "9", "9", "9", "9", "9", "9", "9", "9", "9", "0", "0", "0">>

Composition == Get(out.json, "composition")
Part(class) == Get(Composition, class).n

\* C19: in every analyze result the counts letters, digits, spaces, punctuation
\* and other are numbers from 0 up, and their sum is the length of the text.
C19_CompositionSums ==
  Succeeded("analyze") =>
    /\ \A class \in {"letters", "digits", "spaces", "punctuation", "other"} :
         /\ Get(Composition, class).t = "number" /\ Get(Composition, class).s = <<>>
         /\ Part(class) >= 0
    /\ Part("letters") + Part("digits") + Part("spaces") + Part("punctuation") + Part("other")
         = Len(Arg(req.args, "text").s)

\* "a_1": one letter, one digit, and the underscore in other.
C19_Witness ==
  /\ Succeeded("analyze") /\ Arg(req.args, "text") = Str(<<"a", "_", "1">>)
  /\ Part("letters") = 1 /\ Part("digits") = 1 /\ Part("other") = 1
  /\ Part("spaces") = 0 /\ Part("punctuation") = 0

Listed == listed # <<>>
\* A tool declared with a description and an object schema whose property
\* message is a string and is required.
EchoDeclared(tool) ==
  /\ tool.name = "echo"
  /\ tool.description # <<>> /\ tool.description # <<"">>
  /\ tool.inputSchema.type = "object"
  /\ \E i \in 1..Len(tool.inputSchema.properties) :
       tool.inputSchema.properties[i] = [name |-> "message", type |-> "string"]
  /\ \E i \in 1..Len(tool.inputSchema.required) : tool.inputSchema.required[i] = "message"

\* C20: a listing holds exactly one tool, echo, declared with a description and
\* an object schema that requires the string message.
C20_ListsEchoOnly == Listed => Len(listed) = 1 /\ EchoDeclared(listed[1])

\* The legacy server lists echo alone; the enhanced server lists echo first,
\* declared the same way, followed by nine more tools.
C20_EchoListedFirst ==
  Listed => /\ EchoDeclared(listed[1])
            /\ Len(listed) = (IF build = "legacy" THEN 1 ELSE 10)

\* Once a listing was returned, every later listing is equal to it.
C20_ListingStable == [][Listed => listed' = listed]_vars

Transform == Arg(req.args, "transform")
\* A successful echo call with a transform other than none.
Transformed ==
  /\ Succeeded("echo")
  /\ Transform \in {Word(w) : w \in EchoTransforms \ {"none"}}
\* What format answers for the same text with the transform as its operation.
Formatted ==
  CallTool(registry, "format", [text |-> Message, operation |-> Transform],
           now, sdkThrows, Unread)
FormatAgrees ==
  /\ Formatted.ran = "format" /\ ~Failed(Formatted)
  /\ Get(Formatted.json, "result") = Get(out.json, "transformed")

\* C21: every echo transform other than none is accepted by format as an
\* operation and gives, for the same text, the text echo gives as transformed.
C21_FormatCoversEchoTransforms == Transformed => FormatAgrees

\* On the three transforms format does declare (uppercase, lowercase,
\* titlecase) the two tools agree.
C21_DeclaredTransformsAgree ==
  Transformed /\ Transform.s[1] \in FormatOperations => FormatAgrees

\* The dotted paths of the keys of a plain object and of the plain objects
\* nested in it, a parent before its children, in key order.
RECURSIVE PlainPaths(_, _)
PlainPaths(members, prefix) ==
  IF members = <<>> THEN <<>>
  ELSE LET key == Head(members)[1]
           val == Head(members)[2]
           path == IF prefix = <<>> THEN <<key>> ELSE prefix \o <<".", key>>
       IN <<JStr(path)>>
          \o (IF val.t = "object" THEN PlainPaths(val.o, path) ELSE <<>>)
          \o PlainPaths(Tail(members), prefix)
\* The document of the current json request.
Document == JSONparse(Arg(req.args, "data").s).v
ListedKeys == Get(out.json, "keys").o

\* C22: get_keys returns the dotted paths of the keys of the root object and of
\* the plain objects nested in it, each once and a parent before its children;
\* arrays are not descended into, and a root that is no plain object gives an
\* empty list.
C22_PlainObjectPaths ==
  Succeeded("json") /\ Operation = Word("get_keys") =>
    ListedKeys = (IF Document.t = "object" THEN PlainPaths(Document.o, <<>>) ELSE <<>>)

\* For every root other than an array the list is as described.
C22_PathsUnlessRootArray ==
  Succeeded("json") /\ Operation = Word("get_keys") /\ Document.t # "array" =>
    ListedKeys = (IF Document.t = "object" THEN PlainPaths(Document.o, <<>>) ELSE <<>>)

\* C23: a successful echo reports the message unchanged as original, whatever
\* the transform; transformed is present only for a transform other than none,
\* and hashes is present exactly when includeHash is true.
C23_OriginalPreserved ==
  EchoSucceeded =>
    /\ Get(out.json, "original") = JStr(Message.s)
    /\ HasKey(out.json, "transformed") => Transform \notin {Absent, Word("none")}
    /\ HasKey(out.json, "hashes") <=> Arg(req.args, "includeHash") = Bool(TRUE)

\* "Hello World" in upper case, with hashes: original is still "Hello World".
C23_Witness ==
  /\ EchoSucceeded /\ Message = Str(HelloWorld) /\ Transform = Word("uppercase")
  /\ Arg(req.args, "includeHash") = Bool(TRUE)
  /\ Get(out.json, "original") = JStr(HelloWorld)
  /\ Get(out.json, "transformed") = JStr(toUpperCase(HelloWorld))
  /\ Get(out.json, "transformed") # Get(out.json, "original")
  /\ HasKey(out.json, "hashes")

\* The outcome of a request served alone by a server just started.
RunAlone(r) ==
  IF build = "legacy"
  THEN LegacyCallTool(r.name, r.args, 0)
  ELSE CallTool(registry, r.name, r.args, 0, sdkThrows, Unread)
\* Requests whose outcome depends on neither the clock nor a random source.
Deterministic(r) == IF build = "legacy" THEN r.name # "echo" ELSE ClockFree(r) \/ r.name \notin registry

C24_EveryInvocationAnswered ==
  \A i \in 1..MaxInFlight :
    (inflight[i].stage = "received") ~> (inflight[i].stage = "responded")

Detail == Arg(req.args, "detail")
\* What info answers with detail basic at the same time.
Basic == CallTool(registry, "info", [detail |-> Word("basic")], now, sdkThrows, Unread).json
CatalogNames == [i \in 1..Len(Get(out.json, "tools").o) |-> Get(Get(out.json, "tools").o[i], "name").s[1]]

\* C25: the full answer of info holds every field of the basic answer with
\* the same value, and a catalog that names each registered tool once and
\* nothing else; no name is registered twice.
C25_FullExtendsBasic ==
  Succeeded("info") /\ Detail = Word("full") =>
    /\ \A i \in 1..Len(Basic.o) : /\ HasKey(out.json, Basic.o[i][1])
                                  /\ Get(out.json, Basic.o[i][1]) = Basic.o[i][2]
    /\ {CatalogNames[i] : i \in 1..Len(CatalogNames)} = registry
    /\ \A i, j \in 1..Len(CatalogNames) : CatalogNames[i] = CatalogNames[j] => i = j
    /\ \A i, j \in 1..Len(RegisteredTools) : RegisteredTools[i] = RegisteredTools[j] => i = j

C25_Witness ==
  /\ Succeeded("info") /\ Detail = Word("full")
  /\ Len(CatalogNames) = 10 /\ CatalogNames[10] = "info"
  /\ Get(out.json, "name") = JStr(<<"mcp-echo-tool-enhanced">>)
  /\ HasKey(out.json, "uptime_seconds")

\* A timestamp call of operation now or format (now when omitted) that reached
\* the handler.
ReadingClock ==
  /\ Called /\ build = "enhanced" /\ out.ran = "timestamp"
  /\ Operation \in {Absent, Word("now"), Word("format")}
\* The same call without value and addMs, made when the clock showed at.
WithoutValue(at) ==
  CallTool(registry, "timestamp",
           [operation |-> Operation, format |-> Arg(req.args, "format")],
           at, sdkThrows, Unread)
\* The instant a call made when the clock showed at reports.
ReportsClock(at) == Get(Get(out.json, "all_formats"), "unix_ms") = JBig(IntDigits(at))

\* C26: a timestamp call of operation format or now succeeds whatever value
\* and addMs hold, reports the time of the call (a time the clock has shown),
\* and answers as it does without the two arguments.
C26_ValueIgnored ==
  ReadingClock =>
    /\ out.kind = "returned" /\ ~out.isError
    /\ \E at \in 0..now : ReportsClock(at) /\ out = WithoutValue(at)

\* format with the value "abc", which is no date, and addMs 1.
C26_Witness ==
  /\ ReadingClock /\ Operation = Word("format")
  /\ Value = Str(<<"a", "b", "c">>) /\ Arg(req.args, "addMs") = Num(1)
  /\ ~out.isError
  /\ now > 0 /\ ReportsClock(now)

====
